---- MODULE Spec2Model ----
(***************************************************************************)
(* A model of the ph-switch unit-conversion core: the transform expression *)
(* evaluator (utils/transformEvaluator), the configuration loader          *)
(* (utils/configLoader), the configuration registry (config/index) and the *)
(* conversion engine (utils/converter).                                    *)
(*                                                                         *)
(* Strings are sequences of one-character strings, so that lowercasing,    *)
(* trimming, the allow-list test and the expression parser are computed    *)
(* character by character as the code computes them.                       *)
(***************************************************************************)
EXTENDS Integers, Sequences, FiniteSets, TLC

VARIABLES
    configDocs,            \* the statically imported JSON documents, by category
    globalConfigurations,  \* config/index: let globalConfigurations
    globalAliases,         \* config/index: let globalAliases
    configurationPromise,  \* config/index: let configurationPromise
    microtasks,            \* the microtask queue: suspended async functions, oldest first
    awaiting,              \* initializeConfigurations calls suspended on an unsettled promise
    loadCount,             \* number of loadAllConfigurations() runs so far
    initCalls,             \* number of initializeConfigurations() calls so far
    lastCall,              \* the most recent call made by a caller
    lastResult,            \* what that call returned
    evalExpr,              \* evaluator harness: the formula string under evaluation
    evalX,                 \* evaluator harness: the value bound to x
    evalOutcome,           \* evaluator harness: outcome of evaluateTransform(evalExpr, evalX)
    storedHistory,         \* utils/storage: the container kept in localStorage, or null
    dateNow,               \* utils/storage: Date.now()
    entryIds,              \* utils/storage: number of entry ids generated so far
    appInputValue,         \* App: inputValue, the text of the input
    appResults,            \* App: results, the results displayed
    processingError,       \* App: the error displayed in place of the results, or null
    configurationLoaded,   \* App: isConfigurationLoaded
    configurationError,    \* App: why the configuration failed to load, or null
    debounced,             \* App: the pending argument of each debounced processConversions
    initializeApp,         \* App: the position of the effect that initializes
    edits,                 \* App: number of handleInputChange calls so far
    taValue,               \* ConversionInput: the text of the textarea
    selectionStart,        \* ConversionInput: the caret, as the number of characters before it
    isFocused,             \* ConversionInput: isFocused
    symbols,               \* ConversionInput: symbols, the list of all unit symbols
    symbolsRequested,      \* ConversionInput: a loadAllConfigurations() of ensureSymbolsLoaded is pending
    widgetSuggestions,     \* ConversionInput: suggestions
    suggestVisible,        \* ConversionInput: suggestVisible
    activeIndex,           \* ConversionInput: activeIndex
    hideTimers,            \* ConversionInput: number of pending timers of handleBlur
    animationFrame         \* ConversionInput: the caret the pending animation frame sets, or -1

vars == <<configDocs, globalConfigurations, globalAliases, configurationPromise,
          microtasks, awaiting, loadCount, initCalls, lastCall, lastResult,
          evalExpr, evalX, evalOutcome,
          storedHistory, dateNow, entryIds,
          appInputValue, appResults, processingError, configurationLoaded,
          configurationError, debounced, initializeApp, edits,
          taValue, selectionStart, isFocused, symbols, symbolsRequested,
          widgetSuggestions, suggestVisible, activeIndex, hideTimers, animationFrame>>

\* the module state of config/index
published == <<globalConfigurations, globalAliases>>
registryVars == <<configDocs, globalConfigurations, globalAliases,
                  configurationPromise, microtasks, awaiting, loadCount, initCalls>>
callVars == <<lastCall, lastResult>>
evalVars == <<evalExpr, evalX, evalOutcome>>
storageVars == <<storedHistory, dateNow, entryIds>>
uiVars == <<appInputValue, appResults, processingError, configurationLoaded,
           configurationError, debounced, initializeApp, edits>>
\* the state of the application around the engine
widgetVars == <<taValue, selectionStart, isFocused, symbols, symbolsRequested,
               widgetSuggestions, suggestVisible, activeIndex, hideTimers, animationFrame>>
appVars == <<storageVars, uiVars, widgetVars>>

\* JS values that are not numbers
JsValue(kind) == [k |-> kind, n |-> 0, d |-> 0]
NULL == JsValue("null")
UNDEFINED == JsValue("undefined")

\* nothing is stored and no entry id has been generated
StorageIdle ==
    /\ storedHistory = NULL
    /\ dateNow = 1
    /\ entryIds = 0

\* App as useState initializes it; initializeApp has not run to its end
UiIdle ==
    /\ appInputValue = <<>>
    /\ appResults = <<>>
    /\ processingError = NULL
    /\ configurationLoaded = FALSE
    /\ configurationError = NULL
    /\ debounced = [loaded \in BOOLEAN |-> NULL]
    /\ initializeApp = "pending"
    /\ edits = 0

\* ConversionInput as useState initializes it, with an empty textarea
WidgetIdle ==
    /\ taValue = <<>>
    /\ selectionStart = 0
    /\ isFocused = FALSE
    /\ symbols = <<>>
    /\ symbolsRequested = FALSE
    /\ widgetSuggestions = <<>>
    /\ suggestVisible = FALSE
    /\ activeIndex = -1
    /\ hideTimers = 0
    /\ animationFrame = -1

\* the application around the engine is not involved
AppIdle == StorageIdle /\ UiIdle /\ WidgetIdle

(***************************************************************************)
(* Numbers.  A decimal.js Decimal (and a JS number) is modelled as an      *)
(* exact rational n/d in lowest terms, or one of the non-finite values     *)
(* Infinity, -Infinity, NaN that decimal.js and IEEE arithmetic produce.   *)
(* The sign of a zero is not tracked: a quotient by zero takes the sign of *)
(* its dividend.                                                           *)
(***************************************************************************)
Abs(i) == IF i < 0 THEN -i ELSE i

Sign(i) == IF i < 0 THEN -1 ELSE IF i > 0 THEN 1 ELSE 0

RECURSIVE Gcd(_, _)
Gcd(a, b) == IF b = 0 THEN a ELSE Gcd(b, a % b)

Rat(n, d) ==
    LET g == Gcd(Abs(n), Abs(d))
        s == IF d < 0 THEN -1 ELSE 1
    IN [k |-> "num", n |-> (s * n) \div g, d |-> (s * d) \div g]

Int2Dec(i) == [k |-> "num", n |-> i, d |-> 1]
Infinity(s) == [k |-> "inf", n |-> s, d |-> 0]
NaN == [k |-> "nan", n |-> 0, d |-> 0]
\* a finite value the model does not track exactly (an irrational power or root)
IRR == [k |-> "irr", n |-> 1, d |-> 1]

IsDecimal(v) == v.k \in {"num", "irr", "inf", "nan"}
IsFiniteNum(v) == v.k \in {"num", "irr"}
IsZero(v) == v.k = "num" /\ v.n = 0
DecSign(v) == IF v.k = "nan" THEN 0 ELSE Sign(v.n)

\* Decimal.prototype.neg
DecNeg(v) ==
    CASE v.k = "num" -> Rat(-v.n, v.d)
      [] v.k = "inf" -> Infinity(-v.n)
      [] v.k = "irr" -> IRR
      [] OTHER -> NaN

\* Decimal.prototype.abs
DecAbs(v) ==
    CASE v.k = "num" -> Rat(Abs(v.n), v.d)
      [] v.k = "inf" -> Infinity(1)
      [] v.k = "irr" -> IRR
      [] OTHER -> NaN

\* Decimal.prototype.add
DecAdd(a, b) ==
    CASE a.k = "nan" \/ b.k = "nan" -> NaN
      [] a.k = "irr" \/ b.k = "irr" ->
            IF a.k = "inf" THEN a ELSE IF b.k = "inf" THEN b ELSE IRR
      [] a.k = "inf" /\ b.k = "inf" -> IF a.n = b.n THEN a ELSE NaN
      [] a.k = "inf" -> a
      [] b.k = "inf" -> b
      [] OTHER -> Rat(a.n * b.d + b.n * a.d, a.d * b.d)

\* Decimal.prototype.sub
DecSub(a, b) == DecAdd(a, DecNeg(b))

\* Decimal.prototype.mul
DecMul(a, b) ==
    CASE a.k = "nan" \/ b.k = "nan" -> NaN
      [] a.k = "irr" \/ b.k = "irr" ->
            IF IsZero(a) \/ IsZero(b) THEN Int2Dec(0)
            ELSE IF a.k = "inf" \/ b.k = "inf" THEN Infinity(1) ELSE IRR
      [] a.k = "inf" \/ b.k = "inf" ->
            IF IsZero(a) \/ IsZero(b) THEN NaN ELSE Infinity(DecSign(a) * DecSign(b))
      [] OTHER -> Rat(a.n * b.n, a.d * b.d)

\* Decimal.prototype.div: decimal.js does not throw on a zero divisor, it
\* returns NaN for 0/0 and an infinity for any other dividend.
DecDiv(a, b) ==
    CASE a.k = "nan" \/ b.k = "nan" -> NaN
      [] a.k = "irr" \/ b.k = "irr" ->
            IF IsZero(b) \/ a.k = "inf" THEN Infinity(1)
            ELSE IF IsZero(a) \/ b.k = "inf" THEN Int2Dec(0) ELSE IRR
      [] a.k = "inf" /\ b.k = "inf" -> NaN
      [] a.k = "inf" -> Infinity(a.n * (IF DecSign(b) < 0 THEN -1 ELSE 1))
      [] b.k = "inf" -> Int2Dec(0)
      [] IsZero(b) -> IF IsZero(a) THEN NaN ELSE Infinity(DecSign(a))
      [] OTHER -> Rat(a.n * b.d, a.d * b.n)

\* a < b on decimals (false when either is NaN)
DecLt(a, b) ==
    CASE a.k = "nan" \/ b.k = "nan" -> FALSE
      [] a.k = "inf" -> a.n < 0 /\ ~(b.k = "inf" /\ b.n < 0)
      [] b.k = "inf" -> b.n > 0
      [] OTHER -> a.n * b.d < b.n * a.d

\* Decimal.min / Decimal.max (NaN if any argument is NaN)
DecMin(a, b) ==
    IF a.k = "nan" \/ b.k = "nan" THEN NaN ELSE IF DecLt(b, a) THEN b ELSE a

DecMax(a, b) ==
    IF a.k = "nan" \/ b.k = "nan" THEN NaN ELSE IF DecLt(a, b) THEN b ELSE a

\* the JS remainder Number(a) % Number(b): NaN for a zero divisor or an
\* infinite dividend, the dividend itself for an infinite divisor, and
\* otherwise a - b * trunc(a / b), which has the sign of the dividend
JsRemainder(a, b) ==
    CASE a.k = "nan" \/ b.k = "nan" -> NaN
      [] a.k = "inf" -> NaN
      [] IsZero(b) -> NaN
      [] b.k = "inf" -> a
      [] OTHER ->
            LET p == Abs(a.n) * b.d
                q == Abs(b.n) * a.d
                t == p \div q
            IN Rat(Sign(a.n) * (p - t * q), a.d * b.d)

RECURSIVE IntPow(_, _)
IntPow(b, e) == IF e = 0 THEN 1 ELSE b * IntPow(b, e - 1)

\* Decimal.prototype.pow for the exponents the model evaluates exactly
\* (integers); any other exponent gives an untracked finite value.
DecPow(a, b) ==
    CASE a.k = "nan" \/ b.k = "nan" -> NaN
      [] IsZero(b) -> Int2Dec(1)
      [] a.k = "inf" /\ b.k = "num" ->
            IF b.n < 0 THEN Int2Dec(0)
            ELSE IF a.n < 0 /\ b.d = 1 /\ b.n % 2 = 1 THEN Infinity(-1) ELSE Infinity(1)
      [] b.k # "num" \/ a.k # "num" -> IRR
      [] b.d # 1 -> IRR
      [] b.n > 0 -> Rat(IntPow(a.n, b.n), IntPow(a.d, b.n))
      [] IsZero(a) -> Infinity(1)
      [] OTHER -> Rat(IntPow(a.d, -b.n), IntPow(a.n, -b.n))

\* Math.sqrt(Number(v)): NaN below zero, exact on the squares the model
\* meets, otherwise an untracked finite value
JsSqrt(v) ==
    CASE v.k = "nan" -> NaN
      [] v.k = "inf" -> IF v.n > 0 THEN v ELSE NaN
      [] v.k = "irr" -> IRR
      [] v.n < 0 -> NaN
      [] \E r \in 0..v.n : r * r = v.n /\ v.d = 1 ->
            Int2Dec(CHOOSE r \in 0..v.n : r * r = v.n)
      [] OTHER -> IRR

(***************************************************************************)
(* Characters and strings.                                                 *)
(***************************************************************************)
LowerLetters == <<"a","b","c","d","e","f","g","h","i","j","k","l","m",
                  "n","o","p","q","r","s","t","u","v","w","x","y","z">>
UpperLetters == <<"A","B","C","D","E","F","G","H","I","J","K","L","M",
                  "N","O","P","Q","R","S","T","U","V","W","X","Y","Z">>
DigitChars == <<"0","1","2","3","4","5","6","7","8","9">>

Range(f) == {f[i] : i \in DOMAIN f}

IsDigit(c) == c \in Range(DigitChars)
IsLetter(c) == c \in Range(LowerLetters) \cup Range(UpperLetters)
\* the characters JS \s, String.prototype.trim and jsep's gobbleSpaces skip
IsSpace(c) == c \in {" ", "\t", "\n", "\r"}
DigitValue(c) == (CHOOSE i \in DOMAIN DigitChars : DigitChars[i] = c) - 1

\* String.prototype.toLowerCase, per character
LowerChar(c) ==
    IF c \in Range(UpperLetters)
    THEN LowerLetters[CHOOSE i \in DOMAIN UpperLetters : UpperLetters[i] = c]
    ELSE c

ToLowerCase(s) == [i \in DOMAIN s |-> LowerChar(s[i])]

\* String.prototype.trim
RECURSIVE TrimStart(_)
TrimStart(s) == IF s # <<>> /\ IsSpace(Head(s)) THEN TrimStart(Tail(s)) ELSE s

RECURSIVE TrimEnd(_)
TrimEnd(s) ==
    IF s # <<>> /\ IsSpace(s[Len(s)]) THEN TrimEnd(SubSeq(s, 1, Len(s) - 1)) ELSE s

Trim(s) == TrimEnd(TrimStart(s))

Suffix(s, i) == SubSeq(s, i, Len(s))
CharAt(s, i) == IF i \in DOMAIN s THEN s[i] ELSE ""

(***************************************************************************)
(* utils/transformEvaluator: evaluateTransform.                            *)
(***************************************************************************)
\* what a call of evaluateTransform does: it throws (in the argument and
\* allow-list checks, in jsep, or in evalNode) or returns a value
Thrown(msg, phase) == [threw |-> TRUE, message |-> msg, phase |-> phase, value |-> UNDEFINED]
Returned(v) == [threw |-> FALSE, message |-> "", phase |-> "eval", value |-> v]

\* the character class of the allow-list regular expression
\* /^[0-9a-zA-Z_\s+\-*/().,^%]*$/
AllowedChar(c) ==
    \/ IsDigit(c)
    \/ IsLetter(c)
    \/ c = "_"
    \/ IsSpace(c)
    \/ c \in {"+", "-", "*", "/", "(", ")", ".", ",", "^", "%"}

\* a test that is not anchored at the end: it looks at the first character only
AllowListTestPrefixOnly(expr) == expr = <<>> \/ AllowedChar(expr[1])

\* the regular expression's test: anchored at both ends, so every
\* character of the string has to be in the class
AllowListTest(expr) == \A i \in DOMAIN expr : AllowedChar(expr[i])

\* expr.replace(/\^/g, '**')
RECURSIVE ReplaceCaret(_)
ReplaceCaret(s) ==
    IF s = <<>> THEN <<>>
    ELSE IF Head(s) = "^" THEN <<"*", "*">> \o ReplaceCaret(Tail(s))
    ELSE <<Head(s)>> \o ReplaceCaret(Tail(s))

(***************************************************************************)
(* jsep, the expression parser evaluateTransform calls.  A gobble* step    *)
(* returns a node and the position after it, or no node, or it throws.     *)
(* Only the characters the allow-list lets through (with ^ already         *)
(* replaced) reach the parser, so string and array literals and the        *)
(* operators spelled with other characters are not modelled.               *)
(***************************************************************************)
PNode(node, pos) == [st |-> "node", node |-> node, pos |-> pos]
PNone(pos) == [st |-> "none", node |-> NULL, pos |-> pos]
PThrow == [st |-> "throw", node |-> NULL, pos |-> 0]

RECURSIVE GobbleSpaces(_, _)
GobbleSpaces(s, i) ==
    IF i <= Len(s) /\ IsSpace(s[i]) THEN GobbleSpaces(s, i + 1) ELSE i

IsIdentifierStart(c) == IsLetter(c) \/ c \in {"$", "_"}
IsIdentifierPart(c) == IsIdentifierStart(c) \/ IsDigit(c)

RECURSIVE DigitsEnd(_, _)
DigitsEnd(s, i) == IF i <= Len(s) /\ IsDigit(s[i]) THEN DigitsEnd(s, i + 1) ELSE i

RECURSIVE DigitsValue(_)
DigitsValue(ds) ==
    IF ds = <<>> THEN 0
    ELSE DigitsValue(SubSeq(ds, 1, Len(ds) - 1)) * 10 + DigitValue(ds[Len(ds)])

\* jsep gobbleNumericLiteral; the literal's value is parseFloat of its text
GobbleNumericLiteral(s, i) ==
    LET intEnd == DigitsEnd(s, i)
        hasDot == CharAt(s, intEnd) = "."
        fracEnd == IF hasDot THEN DigitsEnd(s, intEnd + 1) ELSE intEnd
        hasExp == CharAt(s, fracEnd) \in {"e", "E"}
        signPos == fracEnd + 1
        hasSign == hasExp /\ CharAt(s, signPos) \in {"+", "-"}
        expStart == IF hasSign THEN signPos + 1 ELSE signPos
        expEnd == IF hasExp THEN DigitsEnd(s, expStart) ELSE fracEnd
        intDigits == SubSeq(s, i, intEnd - 1)
        fracDigits == IF hasDot THEN SubSeq(s, intEnd + 1, fracEnd - 1) ELSE <<>>
        mantissa == Rat(DigitsValue(intDigits \o fracDigits), IntPow(10, Len(fracDigits)))
        scale == Int2Dec(IntPow(10, DigitsValue(SubSeq(s, expStart, expEnd - 1))))
        value == IF ~hasExp THEN mantissa
                 ELSE IF hasSign /\ s[signPos] = "-" THEN DecDiv(mantissa, scale)
                 ELSE DecMul(mantissa, scale)
    IN IF hasExp /\ ~IsDigit(CharAt(s, expEnd - 1)) THEN PThrow
       ELSE IF IsIdentifierStart(CharAt(s, expEnd)) THEN PThrow
       ELSE IF CharAt(s, expEnd) = "." \/ (expEnd - i = 1 /\ s[i] = ".") THEN PThrow
       ELSE PNode([type |-> "Literal", value |-> value], expEnd)

RECURSIVE IdentifierEnd(_, _)
IdentifierEnd(s, i) ==
    IF i <= Len(s) /\ IsIdentifierPart(s[i]) THEN IdentifierEnd(s, i + 1) ELSE i

\* jsep gobbleIdentifier
GobbleIdentifier(s, i) ==
    IF ~IsIdentifierStart(CharAt(s, i)) THEN PThrow
    ELSE LET e == IdentifierEnd(s, i + 1)
         IN PNode([type |-> "Identifier", name |-> SubSeq(s, i, e - 1)], e)

\* jsep turns the identifiers true, false, null into literals and this
\* into a ThisExpression
IdentifierOrLiteral(id) ==
    CASE id.name = <<"t","r","u","e">> -> [type |-> "Literal", value |-> JsValue("jsboolean")]
      [] id.name = <<"f","a","l","s","e">> -> [type |-> "Literal", value |-> JsValue("jsfalse")]
      [] id.name = <<"n","u","l","l">> -> [type |-> "Literal", value |-> NULL]
      [] id.name = <<"t","h","i","s">> -> [type |-> "ThisExpression"]
      [] OTHER -> id

\* jsep binary_ops reachable with the allowed characters, longest first
BinaryOpAt(s, j) ==
    IF CharAt(s, j) = "*" /\ CharAt(s, j + 1) = "*" THEN "**"
    ELSE IF CharAt(s, j) \in {"+", "-", "*", "/", "%"} THEN s[j]
    ELSE ""

OpLen(op) == IF op = "**" THEN 2 ELSE 1

\* jsep binaryPrecedence; ** is jsep's only right-associative operator
BinaryPrecedence(op) ==
    CASE op \in {"+", "-"} -> 9
      [] op \in {"*", "/", "%"} -> 10
      [] op = "**" -> 11

\* The gobble* rules call one another; they do so through Gobble, which
\* dispatches on the rule's name.
RECURSIVE Gobble(_, _, _, _)

GobbleToken(s, i) == Gobble("token", s, i, NULL)
GobbleTokenProperty(s, node, i) == Gobble("tokenProperty", s, i, node)
GobbleArguments(s, i, args, separators) ==
    Gobble("arguments", s, i, [args |-> args, separators |-> separators])
GobbleGroup(s, i) == Gobble("group", s, i, NULL)
GobbleExpressions(s, i, until, nodes) ==
    Gobble("expressions", s, i, [until |-> until, nodes |-> nodes])
GobbleExpression(s, i) == Gobble("expression", s, i, NULL)
GobbleBinaryRest(s, left, pos, minPrec) ==
    Gobble("binaryRest", s, pos, [left |-> left, minPrec |-> minPrec])

\* jsep gobbleBinaryExpression's operator loop, as precedence climbing:
\* left is the operand parsed so far, minPrec the weakest operator that
\* may still extend it
GobbleBinaryRestRule(s, left, pos, minPrec) ==
    LET j == GobbleSpaces(s, pos)
        op == BinaryOpAt(s, j)
    IN IF op = "" THEN PNode(left, j)
       ELSE IF BinaryPrecedence(op) < minPrec THEN PNode(left, pos)
       ELSE LET tok == GobbleToken(s, j + OpLen(op))
            IN IF tok.st # "node" THEN PThrow
               ELSE LET rhs == GobbleBinaryRest(s, tok.node, tok.pos,
                                   IF op = "**" THEN BinaryPrecedence(op)
                                   ELSE BinaryPrecedence(op) + 1)
                    IN IF rhs.st # "node" THEN PThrow
                       ELSE GobbleBinaryRest(s,
                                [type |-> "BinaryExpression", operator |-> op,
                                 left |-> left, right |-> rhs.node],
                                rhs.pos, minPrec)

\* jsep gobbleBinaryExpression
GobbleBinaryExpression(s, i) ==
    LET left == GobbleToken(s, i)
    IN IF left.st # "node" THEN left ELSE GobbleBinaryRest(s, left.node, left.pos, 0)

\* jsep gobbleExpression
GobbleExpressionRule(s, i) ==
    LET b == GobbleBinaryExpression(s, i)
    IN IF b.st = "throw" THEN b ELSE [b EXCEPT !.pos = GobbleSpaces(s, b.pos)]

\* jsep gobbleToken
GobbleTokenRule(s, i) ==
    LET j == GobbleSpaces(s, i)
        c == CharAt(s, j)
    IN IF IsDigit(c) \/ c = "." THEN GobbleNumericLiteral(s, j)
       ELSE IF c \in {"-", "!", "~", "+"}
       THEN LET arg == GobbleToken(s, j + 1)
            IN IF arg.st # "node" THEN PThrow
               ELSE PNode([type |-> "UnaryExpression", operator |-> c,
                           argument |-> arg.node], arg.pos)
       ELSE IF IsIdentifierStart(c)
       THEN LET id == GobbleIdentifier(s, j)
            IN GobbleTokenProperty(s, IdentifierOrLiteral(id.node), id.pos)
       ELSE IF c = "("
       THEN LET g == GobbleGroup(s, j)
            IN IF g.st = "node" THEN GobbleTokenProperty(s, g.node, g.pos) ELSE g
       ELSE PNone(j)

\* jsep gobbleTokenProperty: member accesses and calls after a token
GobbleTokenPropertyRule(s, node, i) ==
    LET j == GobbleSpaces(s, i)
        c == CharAt(s, j)
    IN IF c = "."
       THEN LET id == GobbleIdentifier(s, GobbleSpaces(s, j + 1))
            IN IF id.st # "node" THEN PThrow
               ELSE GobbleTokenProperty(s,
                        [type |-> "MemberExpression", object |-> node,
                         property |-> id.node], id.pos)
       ELSE IF c = "("
       THEN LET a == GobbleArguments(s, j + 1, <<>>, 0)
            IN IF a.st # "node" THEN PThrow
               ELSE GobbleTokenProperty(s,
                        [type |-> "CallExpression", callee |-> node,
                         arguments |-> a.node], a.pos)
       ELSE PNode(node, j)

\* jsep gobbleArguments(CPAREN): the arguments gobbled so far and the
\* number of commas seen
GobbleArgumentsRule(s, i, args, separators) ==
    IF i > Len(s) THEN PThrow
    ELSE LET j == GobbleSpaces(s, i)
             c == CharAt(s, j)
         IN IF c = ")"
            THEN IF separators > 0 /\ separators >= Len(args) THEN PThrow
                 ELSE PNode(args, j + 1)
            ELSE IF c = ","
            THEN IF separators + 1 # Len(args) THEN PThrow
                 ELSE GobbleArguments(s, j + 1, args, separators + 1)
            ELSE IF Len(args) # separators /\ separators # 0 THEN PThrow
            ELSE LET e == GobbleExpression(s, j)
                 IN IF e.st # "node" THEN PThrow
                    ELSE GobbleArguments(s, e.pos, Append(args, e.node), separators)

\* jsep gobbleExpressions: expressions separated by , or ; or nothing
GobbleExpressionsRule(s, i, until, nodes) ==
    IF i > Len(s) THEN PNode(nodes, i)
    ELSE IF s[i] \in {";", ","} THEN GobbleExpressions(s, i + 1, until, nodes)
    ELSE LET e == GobbleExpression(s, i)
         IN IF e.st = "throw" THEN PThrow
            ELSE IF e.st = "node"
            THEN GobbleExpressions(s, e.pos, until, Append(nodes, e.node))
            ELSE IF e.pos > Len(s) THEN PNode(nodes, e.pos)
            ELSE IF s[i] = until THEN PNode(nodes, e.pos)
            ELSE PThrow

\* jsep gobbleGroup, at an opening parenthesis
GobbleGroupRule(s, i) ==
    LET r == GobbleExpressions(s, i + 1, ")", <<>>)
    IN IF r.st = "throw" THEN PThrow
       ELSE IF CharAt(s, r.pos) # ")" THEN PThrow
       ELSE IF Len(r.node) = 1 THEN PNode(r.node[1], r.pos + 1)
       ELSE IF Len(r.node) = 0 THEN PNone(r.pos + 1)
       ELSE PNode([type |-> "SequenceExpression"], r.pos + 1)

Gobble(rule, s, i, a) ==
    CASE rule = "token" -> GobbleTokenRule(s, i)
      [] rule = "tokenProperty" -> GobbleTokenPropertyRule(s, a, i)
      [] rule = "arguments" -> GobbleArgumentsRule(s, i, a.args, a.separators)
      [] rule = "group" -> GobbleGroupRule(s, i)
      [] rule = "expressions" -> GobbleExpressionsRule(s, i, a.until, a.nodes)
      [] rule = "expression" -> GobbleExpressionRule(s, i)
      [] rule = "binaryRest" -> GobbleBinaryRestRule(s, a.left, i, a.minPrec)

\* jsep(expr): one expression is returned as it is, any other number of
\* them as a Compound node
Jsep(s) ==
    LET r == GobbleExpressions(s, 1, "", <<>>)
    IN IF r.st = "throw" THEN [type |-> "ParseError"]
       ELSE IF Len(r.node) = 1 THEN r.node[1]
       ELSE [type |-> "Compound"]

(***************************************************************************)
(* evaluateTransform's function table and tree interpreter.                *)
(***************************************************************************)
FnNames ==
    [abs |-> <<"a","b","s">>,
     neg |-> <<"n","e","g">>,
     sqrt |-> <<"s","q","r","t">>,
     pow |-> <<"p","o","w">>,
     min |-> <<"m","i","n">>,
     max |-> <<"m","a","x">>,
     constructor |-> <<"c","o","n","s","t","r","u","c","t","o","r">>,
     toString |-> <<"t","o","S","t","r","i","n","g">>,
     toLocaleString |-> <<"t","o","L","o","c","a","l","e","S","t","r","i","n","g">>,
     valueOf |-> <<"v","a","l","u","e","O","f">>,
     hasOwnProperty |-> <<"h","a","s","O","w","n","P","r","o","p","e","r","t","y">>,
     isPrototypeOf |-> <<"i","s","P","r","o","t","o","t","y","p","e","O","f">>,
     propertyIsEnumerable |-> <<"p","r","o","p","e","r","t","y","I","s","E","n","u","m","e","r","a","b","l","e">>,
     proto_ |-> <<"_","_","p","r","o","t","o","_","_">>,
     defineGetter_ |-> <<"_","_","d","e","f","i","n","e","G","e","t","t","e","r","_","_">>,
     defineSetter_ |-> <<"_","_","d","e","f","i","n","e","S","e","t","t","e","r","_","_">>,
     lookupGetter_ |-> <<"_","_","l","o","o","k","u","p","G","e","t","t","e","r","_","_">>,
     lookupSetter_ |-> <<"_","_","l","o","o","k","u","p","S","e","t","t","e","r","_","_">>]

\* the keys of the object literal fnMap
FnMapOwnKeys == {FnNames.abs, FnNames.neg, FnNames.sqrt, FnNames.pow, FnNames.min, FnNames.max}

\* the properties fnMap inherits from Object.prototype
ObjectPrototypeKeys ==
    {FnNames.constructor,
     FnNames.toString,
     FnNames.toLocaleString,
     FnNames.valueOf,
     FnNames.hasOwnProperty,
     FnNames.isPrototypeOf,
     FnNames.propertyIsEnumerable,
     FnNames.proto_,
     FnNames.defineGetter_,
     FnNames.defineSetter_,
     FnNames.lookupGetter_,
     FnNames.lookupSetter_}

\* `name in fnMap` looks the name up along the prototype chain
NameInFnMapOwnOnly(name) == name \in FnMapOwnKeys

NameInFnMap(name) == name \in FnMapOwnKeys \cup ObjectPrototypeKeys

ArgAt(args, i) == IF i \in DOMAIN args THEN args[i] ELSE UNDEFINED

TypeError == Thrown("TypeError", "eval")
DecimalError == Thrown("[DecimalError] Invalid argument", "eval")

\* new Decimal(v) for a value handed to a Decimal method
IsDecimalArgument(v) == IsDecimal(v)

\* Number(v.toString()) for a defined value v
ToNumberViaString(v) == IF IsDecimal(v) THEN v ELSE NaN

\* `w || fallback`: every object is truthy; undefined, null and false are not
IsFalsy(v) == v.k \in {"undefined", "null", "jsfalse"}

\* fnMap[name](v, w)
CallFnMap(name, v, w) ==
    CASE name = FnNames.abs -> IF IsDecimal(v) THEN Returned(DecAbs(v)) ELSE TypeError
      [] name = FnNames.neg -> IF IsDecimal(v) THEN Returned(DecNeg(v)) ELSE TypeError
      [] name = FnNames.sqrt ->
            IF v.k \in {"undefined", "null"} THEN TypeError
            ELSE Returned(JsSqrt(ToNumberViaString(v)))
      [] name = FnNames.pow ->
            IF ~IsDecimal(v) THEN TypeError
            ELSE IF IsFalsy(w) THEN Returned(DecPow(v, Int2Dec(0)))
            ELSE IF IsDecimalArgument(w) THEN Returned(DecPow(v, w))
            ELSE DecimalError
      [] name = FnNames.min ->
            IF ~IsDecimalArgument(v) THEN DecimalError
            ELSE IF IsFalsy(w) THEN Returned(DecMin(v, v))
            ELSE IF IsDecimalArgument(w) THEN Returned(DecMin(v, w))
            ELSE DecimalError
      [] name = FnNames.max ->
            IF ~IsDecimalArgument(v) THEN DecimalError
            ELSE IF IsFalsy(w) THEN Returned(DecMax(v, v))
            ELSE IF IsDecimalArgument(w) THEN Returned(DecMax(v, w))
            ELSE DecimalError
      \* Object(v): an object argument is returned as it is
      [] name = FnNames.constructor ->
            IF IsDecimal(v) \/ v.k = "jsobject" THEN Returned(v)
            ELSE Returned(JsValue("jsobject"))
      \* Object.prototype.toString.call(fnMap) is "[object Object]"
      [] name \in {FnNames.toString, FnNames.toLocaleString} -> Returned(JsValue("jsstring"))
      [] name = FnNames.valueOf -> Returned(JsValue("jsobject"))
      [] name \in {FnNames.hasOwnProperty, FnNames.isPrototypeOf, FnNames.propertyIsEnumerable} ->
            Returned(JsValue("jsfalse"))
      [] name \in {FnNames.lookupGetter_, FnNames.lookupSetter_} -> Returned(UNDEFINED)
      \* Object.prototype is not callable; the legacy definers want a function
      [] OTHER -> TypeError

RECURSIVE EvalNode(_, _)
RECURSIVE EvalArguments(_, _)

\* node.arguments.map(evalNode): the values, or the first throw
EvalArguments(nodes, xValue) ==
    IF nodes = <<>> THEN Returned(<<>>)
    ELSE LET first == EvalNode(Head(nodes), xValue)
         IN IF first.threw THEN first
            ELSE LET rest == EvalArguments(Tail(nodes), xValue)
                 IN IF rest.threw THEN rest
                    ELSE Returned(<<first.value>> \o rest.value)

\* left <op> right of evalNode's BinaryExpression case
ApplyBinary(op, left, right) ==
    IF op = "%"
    THEN IF left.k \in {"undefined", "null"} \/ right.k \in {"undefined", "null"}
         THEN TypeError
         ELSE Returned(JsRemainder(ToNumberViaString(left), ToNumberViaString(right)))
    ELSE IF ~IsDecimal(left) THEN TypeError
    ELSE IF ~IsDecimalArgument(right) THEN DecimalError
    ELSE CASE op = "+" -> Returned(DecAdd(left, right))
           [] op = "-" -> Returned(DecSub(left, right))
           [] op = "*" -> Returned(DecMul(left, right))
           [] op = "/" -> Returned(DecDiv(left, right))
           [] op = "**" -> Returned(DecPow(left, right))
           [] OTHER -> Thrown("Unsupported binary operator", "eval")

\* evalNode
EvalNode(node, xValue) ==
    CASE node.type = "Literal" ->
            IF IsDecimal(node.value) THEN Returned(node.value) ELSE DecimalError
      [] node.type = "Identifier" ->
            IF node.name = <<"x">> \/ node.name = <<"X">> THEN Returned(xValue)
            ELSE Thrown("Unknown identifier", "eval")
      [] node.type = "UnaryExpression" ->
            LET arg == EvalNode(node.argument, xValue)
            IN IF arg.threw THEN arg
               ELSE IF node.operator = "+" THEN Returned(arg.value)
               ELSE IF node.operator = "-"
               THEN IF IsDecimal(arg.value) THEN Returned(DecNeg(arg.value)) ELSE TypeError
               ELSE Thrown("Unsupported unary operator", "eval")
      [] node.type = "BinaryExpression" ->
            LET left == EvalNode(node.left, xValue)
            IN IF left.threw THEN left
               ELSE LET right == EvalNode(node.right, xValue)
                    IN IF right.threw THEN right
                       ELSE ApplyBinary(node.operator, left.value, right.value)
      [] node.type = "CallExpression" ->
            IF node.callee.type = "Identifier"
            THEN LET args == EvalArguments(node.arguments, xValue)
                 IN IF args.threw THEN args
                    ELSE IF NameInFnMap(node.callee.name)
                    THEN CallFnMap(node.callee.name, ArgAt(args.value, 1), ArgAt(args.value, 2))
                    ELSE Thrown("Unsupported function in transform expression", "eval")
            ELSE Thrown("Unsupported function in transform expression", "eval")
      [] OTHER -> Thrown("Unsupported expression in transform", "eval")

\* evalNode(ast, xValue) of the tree jsep returned, unless jsep threw
EvalParsed(ast, xValue) ==
    IF ast.type = "ParseError" THEN Thrown("jsep parse error", "parse")
    ELSE EvalNode(ast, xValue)

\* evaluateTransform(expr, xValue); a string argument is always given
EvaluateTransform(expr, xValue) ==
    IF expr = <<>> THEN Thrown("Transform expression must be a string", "check")
    ELSE IF ~AllowListTest(expr)
    THEN Thrown("Invalid characters in transform expression", "check")
    ELSE EvalParsed(Jsep(ReplaceCaret(expr)), xValue)

\* dec.toNumber() when it is finite, else null; dec.toNumber() of a value
\* that is not a Decimal throws, and the throw is caught
ToFiniteNumber(dec) ==
    IF dec.threw THEN NULL
    ELSE IF ~IsDecimal(dec.value) THEN NULL
    ELSE IF ~IsFiniteNum(dec.value) THEN NULL
    ELSE dec.value

\* evaluateExpressionToNumber(expr, xVal): a finite number, or null
EvaluateExpressionToNumber(expr, xVal) ==
    ToFiniteNumber(EvaluateTransform(expr, xVal))

(***************************************************************************)
(* utils/configLoader.  A configuration document is a record with the      *)
(* fields category, baseUnit and units; units maps a unit key to its        *)
(* definition and unitOrder lists the keys in the order Object.entries      *)
(* visits them.  A field the JSON leaves out is not in the record.         *)
(***************************************************************************)
\* the categories loadAllConfigurations loads, in the order it loads them
CategoryOrder ==
    <<"length", "area", "volume", "temperature", "airflow", "airflow-envelope",
      "mass", "energy", "power", "power-intensity", "energy-intensity",
      "energy-efficiency", "density", "speed", "humidity",
      "heat-capacity-by-volume", "heat-capacity-by-area">>

\* obj.field is present
Has(obj, field) == field \in DOMAIN obj

\* obj without the field
Without(obj, field) == [f \in DOMAIN obj \ {field} |-> obj[f]]

\* a unit definition with aliases and a numeric factor
FactorUnit(aliases, factor) == [aliases |-> aliases, factor |-> factor]

\* a unit definition with aliases and a transform, and no factor
TransformUnit(aliases, toBase, fromBase) ==
    [aliases |-> aliases, transform |-> [toBase |-> toBase, fromBase |-> fromBase]]

\* unit.factor, undefined when the definition has none
FactorOf(unit) == IF Has(unit, "factor") THEN unit.factor ELSE UNDEFINED

\* Object.entries(units): the unit keys in insertion order
UnitKeys(config) == config.unitOrder

\* units[key], undefined for a key the object does not have
UnitAt(config, key) ==
    IF key \in DOMAIN config.units THEN config.units[key] ELSE UNDEFINED

\* the aliases of one unit are pairwise different
AliasesUnique(aliases) ==
    \A i, j \in DOMAIN aliases : aliases[i] = aliases[j] => i = j

\* validateConfiguration: the schema's shape check -- the required fields
\* are present, a factor that is given is > 0, a unit's aliases are unique
ValidateConfiguration(config) ==
    /\ Has(config, "category")
    /\ Has(config, "baseUnit")
    /\ Has(config, "units")
    /\ \A key \in DOMAIN config.units :
          LET unit == config.units[key]
          IN /\ Has(unit, "aliases")
             /\ AliasesUnique(unit.aliases)
             /\ Has(unit, "factor") =>
                    IsFiniteNum(unit.factor) /\ DecSign(unit.factor) > 0

\* unitData.factor = computed, when a finite number was computed
WithComputedFactor(unitData, computed) ==
    IF computed # NULL THEN ("factor" :> computed) @@ unitData ELSE unitData

\* the factor-backfill step for one unit of the working copy
BackfillFactor(unitData) ==
    IF ~Has(unitData, "factor") /\ Has(unitData, "transform")
       /\ unitData.transform.toBase # <<>>
    THEN WithComputedFactor(unitData,
             EvaluateExpressionToNumber(unitData.transform.toBase, Int2Dec(1)))
    ELSE unitData

\* loadUnitCategory that accepts any base unit the unit map contains
LoadUnitCategoryAnyBase(config, categoryName) ==
    IF ~ValidateConfiguration(config) THEN NULL
    ELSE IF config.category # categoryName THEN NULL
    ELSE IF UnitAt(config, config.baseUnit) = UNDEFINED THEN NULL
    ELSE [config EXCEPT !.units = [key \in DOMAIN config.units |->
                                      BackfillFactor(config.units[key])]]

\* loadUnitCategory(config, categoryName): the category, or null
LoadUnitCategory(config, categoryName) ==
    IF ~ValidateConfiguration(config) THEN NULL
    ELSE IF config.category # categoryName THEN NULL
    ELSE IF UnitAt(config, config.baseUnit) = UNDEFINED THEN NULL
    ELSE LET baseDef == config.units[config.baseUnit]
             baseIsValid ==
                 \/ FactorOf(baseDef) = Int2Dec(1)
                 \/ /\ Has(baseDef, "transform")
                    /\ baseDef.transform.toBase # <<>>
                    /\ baseDef.transform.fromBase # <<>>
         IN IF ~baseIsValid THEN NULL
            ELSE [config EXCEPT !.units = [key \in DOMAIN config.units |->
                                              BackfillFactor(config.units[key])]]

\* a failed ConfigurationLoadResult
LoadFailure(categoryName) ==
    [success |-> FALSE, error |-> <<"Failed to load unit configuration", categoryName>>]

\* loadAllConfigurations from its i-th block on, with the categories
\* loaded by the blocks before it
RECURSIVE LoadFrom(_, _, _)

\* one block of loadAllConfigurations: keep the loaded category and go
\* on, or return the failure
LoadBlock(docs, i, categories, loaded) ==
    IF loaded # NULL
    THEN LoadFrom(docs, i + 1, (CategoryOrder[i] :> loaded) @@ categories)
    ELSE LoadFailure(CategoryOrder[i])

LoadFrom(docs, i, categories) ==
    IF i > Len(CategoryOrder)
    THEN IF DOMAIN categories = {}
         THEN [success |-> FALSE, error |-> <<"No valid unit configurations found", "">>]
         ELSE [success |-> TRUE, categories |-> categories]
    ELSE LoadBlock(docs, i, categories,
                   LoadUnitCategory(docs[CategoryOrder[i]], CategoryOrder[i]))

\* a loader that leaves a failing category out and goes on with the next
RECURSIVE LoadFromSkippingFailed(_, _, _)

LoadBlockSkippingFailed(docs, i, categories, loaded) ==
    IF loaded # NULL
    THEN LoadFromSkippingFailed(docs, i + 1, (CategoryOrder[i] :> loaded) @@ categories)
    ELSE LoadFromSkippingFailed(docs, i + 1, categories)

LoadFromSkippingFailed(docs, i, categories) ==
    IF i > Len(CategoryOrder)
    THEN [success |-> TRUE, categories |-> categories]
    ELSE LoadBlockSkippingFailed(docs, i, categories,
             LoadUnitCategory(docs[CategoryOrder[i]], CategoryOrder[i]))

LoadAllConfigurationsSkippingFailed(docs) == LoadFromSkippingFailed(docs, 1, <<>>)

\* loadAllConfigurations()
LoadAllConfigurations(docs) == LoadFrom(docs, 1, <<>>)

\* Object.entries(categories): the category keys in insertion order
CategoryKeys(categories) ==
    SelectSeq(CategoryOrder, LAMBDA c : c \in DOMAIN categories)

\* the (alias, category, unit) triples in the order the nested forEach
\* loops of getAllUnitAliases and the for loops of findUnitByAlias visit them
RECURSIVE UnitAliasEntries(_, _, _)
UnitAliasEntries(categoryKey, category, keys) ==
    IF keys = <<>> THEN <<>>
    ELSE LET unitKey == Head(keys)
             aliases == category.units[unitKey].aliases
         IN [i \in DOMAIN aliases |->
                [alias |-> aliases[i], category |-> categoryKey, unit |-> unitKey]]
            \o UnitAliasEntries(categoryKey, category, Tail(keys))

RECURSIVE AliasEntries(_, _)
AliasEntries(categories, keys) ==
    IF keys = <<>> THEN <<>>
    ELSE UnitAliasEntries(Head(keys), categories[Head(keys)],
                          UnitKeys(categories[Head(keys)]))
         \o AliasEntries(categories, Tail(keys))

\* The alias object: its properties in insertion order, each a record
\* [alias, category, unit] with alias the property's key.
AliasKeySet(aliases) == {aliases[i].alias : i \in DOMAIN aliases}

\* aliases[key], or undefined
AliasLookup(aliases, key) ==
    IF key \in AliasKeySet(aliases)
    THEN LET i == CHOOSE i \in DOMAIN aliases : aliases[i].alias = key
         IN [category |-> aliases[i].category, unit |-> aliases[i].unit]
    ELSE UNDEFINED

\* an alias index in which a later registration replaces an earlier one
RECURSIVE AddAliasesLastWins(_, _)
AddAliasesLastWins(aliases, entries) ==
    IF entries = <<>> THEN aliases
    ELSE LET e == Head(entries)
             normalizedAlias == Trim(ToLowerCase(e.alias))
             registered == [alias |-> normalizedAlias,
                            category |-> e.category, unit |-> e.unit]
         IN IF normalizedAlias = <<>> THEN AddAliasesLastWins(aliases, Tail(entries))
            ELSE IF normalizedAlias \in AliasKeySet(aliases)
            THEN AddAliasesLastWins(
                     [i \in DOMAIN aliases |->
                         IF aliases[i].alias = normalizedAlias THEN registered
                         ELSE aliases[i]],
                     Tail(entries))
            ELSE AddAliasesLastWins(Append(aliases, registered), Tail(entries))

\* the body of getAllUnitAliases' innermost forEach, over the entries left
RECURSIVE AddAliases(_, _)
AddAliases(aliases, entries) ==
    IF entries = <<>> THEN aliases
    ELSE LET e == Head(entries)
             normalizedAlias == Trim(ToLowerCase(e.alias))
         IN IF normalizedAlias = <<>> THEN AddAliases(aliases, Tail(entries))
            ELSE IF normalizedAlias \in AliasKeySet(aliases)
            THEN AddAliases(aliases, Tail(entries))
            ELSE AddAliases(Append(aliases, [alias |-> normalizedAlias,
                                             category |-> e.category, unit |-> e.unit]),
                            Tail(entries))

\* getAllUnitAliases(categories)
GetAllUnitAliases(categories) ==
    AddAliases(<<>>, AliasEntries(categories, CategoryKeys(categories)))

\* the first entry whose lowercased alias is the normalized query
RECURSIVE FirstAliasMatch(_, _, _)
FirstAliasMatch(categories, entries, normalizedAlias) ==
    IF entries = <<>> THEN NULL
    ELSE LET e == Head(entries)
         IN IF ToLowerCase(e.alias) = normalizedAlias
            THEN [category |-> e.category, unit |-> e.unit,
                  definition |-> categories[e.category].units[e.unit]]
            ELSE FirstAliasMatch(categories, Tail(entries), normalizedAlias)

\* findUnitByAlias(alias, categories)
FindUnitByAlias(alias, categories) ==
    FirstAliasMatch(categories, AliasEntries(categories, CategoryKeys(categories)),
                    Trim(ToLowerCase(alias)))

(***************************************************************************)
(* The configuration documents the loader is given.  The JSON files are    *)
(* data: the model draws them from documents of the shapes the loader      *)
(* distinguishes.                                                          *)
(***************************************************************************)
Units ==
    [m |-> <<"m">>,
     ft |-> <<"f","t">>,
     rm |-> <<"r","m">>,
     l |-> <<"l">>,
     gal |-> <<"g","a","l">>,
     c |-> <<"c">>,
     f |-> <<"f">>,
     zr |-> <<"z","r">>]

\* the key of the base unit of the categories the model gives one unit
BaseUnitKey ==
    [c \in Range(CategoryOrder) |->
        CASE c = "area" -> <<"m","2">>
          [] c = "airflow" -> <<"c","m","h">>
          [] c = "airflow-envelope" -> <<"a","c","h">>
          [] c = "mass" -> <<"k","g">>
          [] c = "energy" -> <<"w","h">>
          [] c = "power" -> <<"w">>
          [] c = "power-intensity" -> <<"w","m","2">>
          [] c = "energy-intensity" -> <<"w","h","m","2">>
          [] c = "energy-efficiency" -> <<"w","w">>
          [] c = "density" -> <<"k","g","m","3">>
          [] c = "speed" -> <<"m","s">>
          [] c = "humidity" -> <<"g","k","g">>
          [] c = "heat-capacity-by-volume" -> <<"j","m","3","k">>
          [] c = "heat-capacity-by-area" -> <<"j","m","2","k">>
          [] c = "length" -> Units.m
          [] c = "volume" -> Units.l
          [] c = "temperature" -> Units.c]

\* a category of one unit, its base unit
OneUnitDoc(c) ==
    [category |-> c, baseUnit |-> BaseUnitKey[c],
     unitOrder |-> <<BaseUnitKey[c]>>,
     units |-> (BaseUnitKey[c] :> FactorUnit(<<BaseUnitKey[c]>>, Int2Dec(1)))]

\* length: factor units; an alias written with a capital letter
LengthDoc ==
    [category |-> "length", baseUnit |-> Units.m,
     unitOrder |-> <<Units.m, Units.ft>>,
     units |-> (Units.m :> FactorUnit(<<Units.m, <<"M","e","t","e","r">>>>, Int2Dec(1)))
            @@ (Units.ft :> FactorUnit(<<Units.ft>>, Rat(381, 1250)))]

\* length with a reciprocal unit defined by a transform only
LengthDocWithTransform ==
    [LengthDoc EXCEPT
        !.unitOrder = <<Units.m, Units.ft, Units.rm>>,
        !.units = LengthDoc.units
                  @@ (Units.rm :> TransformUnit(<<Units.rm>>,
                                            <<"1","/","(","x","*","2",")">>,
                                            <<"1","/","(","x","*","2",")">>))]

\* volume: factor units
VolumeDoc ==
    [category |-> "volume", baseUnit |-> Units.l,
     unitOrder |-> <<Units.l, Units.gal>>,
     units |-> (Units.l :> FactorUnit(<<Units.l>>, Int2Dec(1)))
            @@ (Units.gal :> FactorUnit(<<Units.gal>>, Rat(4, 1)))]

\* temperature: an offset scale defined by a transform only
TemperatureDoc ==
    [category |-> "temperature", baseUnit |-> Units.c,
     unitOrder |-> <<Units.c, Units.f>>,
     units |-> (Units.c :> FactorUnit(<<Units.c>>, Int2Dec(1)))
            @@ (Units.f :> TransformUnit(<<Units.f>>,
                                     <<"(","x","-","3","2",")","*","5","/","9">>,
                                     <<"x","*","9","/","5","+","3","2">>))]

\* length with a unit whose toBase formula names a variable other than x,
\* and an offset unit whose toBase formula is 0 at 1
LengthDocUnevaluable ==
    [LengthDoc EXCEPT
        !.unitOrder = <<Units.m, Units.ft, Units.rm, Units.zr>>,
        !.units = LengthDoc.units
                  @@ (Units.rm :> TransformUnit(<<Units.rm>>,
                                            <<"1","/","(","k","*","2",")">>,
                                            <<"1","/","(","x","*","2",")">>))
                  @@ (Units.zr :> TransformUnit(<<Units.zr>>,
                                            <<"x","-","1">>,
                                            <<"x","+","1">>))]

\* volume whose aliases repeat, once normalized, an alias of length and
\* an alias of an earlier unit of volume
VolumeDocColliding ==
    [category |-> "volume", baseUnit |-> Units.l,
     unitOrder |-> <<Units.l, Units.gal>>,
     units |-> (Units.l :> FactorUnit(<<Units.l, <<" ","M"," ">>>>, Int2Dec(1)))
            @@ (Units.gal :> FactorUnit(<<Units.gal, <<"L">>, <<"f","t">>>>,
                                        Rat(4, 1)))]

\* temperature whose base unit is defined by a transform that doubles
TemperatureDocScaledBase ==
    [category |-> "temperature", baseUnit |-> Units.c,
     unitOrder |-> <<Units.c, Units.f>>,
     units |-> (Units.c :> TransformUnit(<<Units.c>>,
                                     <<"x","*","2">>, <<"x","/","2">>))
            @@ (Units.f :> FactorUnit(<<Units.f>>, Int2Dec(3)))]

StandardDoc(c) ==
    CASE c = "length" -> LengthDoc
      [] c = "volume" -> VolumeDoc
      [] c = "temperature" -> TemperatureDoc
      [] OTHER -> OneUnitDoc(c)

\* every document loads
StandardDocs == [c \in Range(CategoryOrder) |-> StandardDoc(c)]

TransformDocs == [StandardDocs EXCEPT !["length"] = LengthDocWithTransform]

\* documents that load although they are irregular
IrregularDocs ==
    [StandardDocs EXCEPT !["length"] = LengthDocUnevaluable,
                         !["volume"] = VolumeDocColliding,
                         !["temperature"] = TemperatureDocScaledBase]

\* the ways a document fails to load
DocDefects == {"no units", "zero factor", "category name", "base unit absent", "base factor"}

Defective(doc, defect) ==
    CASE defect = "no units" -> Without(doc, "units")
      [] defect = "zero factor" ->
            [doc EXCEPT !.units[doc.baseUnit].factor = Int2Dec(0)]
      [] defect = "category name" -> [doc EXCEPT !.category = "other"]
      [] defect = "base unit absent" -> [doc EXCEPT !.baseUnit = <<"n","o","n","e">>]
      [] defect = "base factor" -> [doc EXCEPT !.units[doc.baseUnit].factor = Int2Dec(2)]

\* the categories in which the model tries every defect, the first and
\* the last one loaded; in two of the others one defect is tried
DefectsTried(c) ==
    IF c \in {"length", "heat-capacity-by-area"} THEN DocDefects
    ELSE IF c \in {"volume", "temperature"} THEN {"category name"}
    ELSE {}

\* the document sets: all valid, or exactly one category defective
FailingDocs ==
    {[StandardDocs EXCEPT ![c] = Defective(StandardDocs[c], defect)] :
        <<c, defect>> \in {cd \in Range(CategoryOrder) \X DocDefects :
                              cd[2] \in DefectsTried(cd[1])}}

DocSets == {StandardDocs, TransformDocs, IrregularDocs} \cup FailingDocs

(***************************************************************************)
(* utils/errorHandler.  An ErrorDetails is a record; the texts of message  *)
(* and context are kept apart from the values interpolated into them.      *)
(***************************************************************************)
Min2(a, b) == IF a < b THEN a ELSE b
Max2(a, b) == IF a > b THEN a ELSE b

\* one row of the edit-distance table: row for the first i characters of
\* a, from the row for the first i - 1
RECURSIVE LevenshteinRow(_, _, _, _, _)
LevenshteinRow(a, b, i, prev, row) ==
    IF Len(row) = Len(b) + 1 THEN row
    ELSE LET j == Len(row)
             cost == IF a[i] = b[j] THEN 0 ELSE 1
             cell == Min2(Min2(prev[j + 1] + 1, row[j] + 1), prev[j] + cost)
         IN LevenshteinRow(a, b, i, prev, Append(row, cell))

RECURSIVE LevenshteinFrom(_, _, _, _)
LevenshteinFrom(a, b, i, prev) ==
    IF i > Len(a) THEN prev[Len(b) + 1]
    ELSE LevenshteinFrom(a, b, i + 1, LevenshteinRow(a, b, i, prev, <<i>>))

\* levenshtein.get(str1, str2)
Levenshtein(a, b) == LevenshteinFrom(a, b, 1, [j \in 1..(Len(b) + 1) |-> j - 1])

\* calculateSimilarity(str1, str2), as the fraction <<numerator, denominator>>
CalculateSimilarity(str1, str2) ==
    LET maxLength == Max2(Len(str1), Len(str2))
    IN IF maxLength = 0 THEN <<1, 1>>
       ELSE <<maxLength - Levenshtein(str1, str2), maxLength>>

\* the { alias, score } object of one alias
Scored(normalizedQuery, alias) ==
    [alias |-> alias, score |-> CalculateSimilarity(normalizedQuery, alias)]

\* the body of the for-in loop of findSimilarUnits: score > 0.3
PushIfSimilar(suggestions, suggestion) ==
    IF 10 * suggestion.score[1] > 3 * suggestion.score[2]
    THEN Append(suggestions, suggestion)
    ELSE suggestions

\* b.score - a.score < 0: the comparator puts a before b
ScoreHigher(a, b) == a.score[1] * b.score[2] > b.score[1] * a.score[2]

\* the stable sort of the suggestions by descending score: insertion of
\* one suggestion into a sorted list, behind those that score as high
RECURSIVE InsertByScore(_, _)
InsertByScore(sorted, suggestion) ==
    IF sorted = <<>> THEN <<suggestion>>
    ELSE IF ScoreHigher(suggestion, Head(sorted)) THEN <<suggestion>> \o sorted
    ELSE <<Head(sorted)>> \o InsertByScore(Tail(sorted), suggestion)

RECURSIVE SortByScore(_, _)
SortByScore(suggestions, sorted) ==
    IF suggestions = <<>> THEN sorted
    ELSE SortByScore(Tail(suggestions), InsertByScore(sorted, Head(suggestions)))

\* Object.keys(aliases)
AliasKeys(aliases) == [i \in DOMAIN aliases |-> aliases[i].alias]

\* the suggestions the for-in loop pushes, in the order it pushes them
RECURSIVE PushSimilar(_, _, _)
PushSimilar(keys, normalizedQuery, suggestions) ==
    IF keys = <<>> THEN suggestions
    ELSE PushSimilar(Tail(keys), normalizedQuery,
                     PushIfSimilar(suggestions, Scored(normalizedQuery, Head(keys))))

\* the aliases that score above 0.3, sorted by descending score
SimilarSorted(keys, normalizedQuery) ==
    SortByScore(PushSimilar(keys, normalizedQuery, <<>>), <<>>)

\* map(s => s.alias)
AliasesOf(suggestions) == [i \in DOMAIN suggestions |-> suggestions[i].alias]

\* slice(0, maxSuggestions)
FirstSuggestions(sorted, maxSuggestions) ==
    SubSeq(sorted, 1, Min2(Len(sorted), maxSuggestions))

\* findSimilarUnits(query, maxSuggestions), with getAliases() = aliases
FindSimilarUnits(aliases, query, maxSuggestions) ==
    IF aliases = NULL THEN <<>>
    ELSE AliasesOf(FirstSuggestions(
                       SimilarSorted(AliasKeys(aliases), Trim(ToLowerCase(query))),
                       maxSuggestions))

\* error.message.match(/"([^"]+)"/) on a message that ends in "<unit>":
\* the first non-empty text between two double quotes, or nothing
QuotedUnit(unit) ==
    LET msg == <<"\"">> \o unit \o <<"\"">>
        Closes(i, j) == /\ msg[j] = "\""
                        /\ \A k \in (i + 1)..(j - 1) : msg[k] # "\""
        starts == {i \in DOMAIN msg :
                      msg[i] = "\"" /\ \E j \in (i + 2)..Len(msg) : Closes(i, j)}
    IN IF starts = {} THEN <<>>
       ELSE LET i == CHOOSE a \in starts : \A b \in starts : a <= b
                j == CHOOSE c \in (i + 2)..Len(msg) : Closes(i, c)
            IN SubSeq(msg, i + 1, j - 1)

\* the suggestions of the enhanced error: one per similar unit, or the
\* three generic hints
SuggestionTexts(suggestions) ==
    IF Len(suggestions) > 0
    THEN [i \in DOMAIN suggestions |->
             [text |-> "Did you mean", alias |-> suggestions[i]]]
    ELSE <<[text |-> "Check the spelling of your unit", alias |-> <<>>],
           [text |-> "Try using a common abbreviation", alias |-> <<>>],
           [text |-> "Verify the unit is supported in this category",
            alias |-> <<>>]>>

\* the branch of enhanceErrorWithSuggestions for the unit the message quotes
EnhanceForUnit(aliases, error, unit) ==
    IF unit = <<>> THEN error
    ELSE [error EXCEPT !.suggestions =
             SuggestionTexts(FindSimilarUnits(aliases, unit, 3))]

\* enhanceErrorWithSuggestions(error)
EnhanceErrorWithSuggestions(aliases, error) ==
    IF error.type # "UNKNOWN_UNIT" THEN error
    ELSE EnhanceForUnit(aliases, error, QuotedUnit(error.unit))

\* createUnknownUnitError(unit, isSource)
CreateUnknownUnitError(aliases, unit, isSource) ==
    EnhanceErrorWithSuggestions(aliases,
        [type |-> "UNKNOWN_UNIT",
         message |-> IF isSource THEN "Unknown source unit" ELSE "Unknown target unit",
         unit |-> unit,
         suggestions |-> <<>>])

\* createCategoryError(sourceUnit, targetUnit, sourceCategory, targetCategory)
CreateCategoryError(sourceUnit, targetUnit, sourceCategory, targetCategory) ==
    [type |-> "INVALID_FORMAT",
     message |-> "Cannot convert between different unit categories",
     context |-> [sourceUnit |-> sourceUnit, sourceCategory |-> sourceCategory,
                  targetUnit |-> targetUnit, targetCategory |-> targetCategory]]

\* createCalculationError(message, context)
CreateCalculationError(message, context) ==
    [type |-> "CALCULATION_ERROR", message |-> message, context |-> context]

(***************************************************************************)
(* utils/parser.  The three CONVERSION_PATTERNS are matched by hand: a     *)
(* number, white space, the source unit text (as short as possible), white *)
(* space, "to" or "as", white space, and the target unit text up to the    *)
(* end.  Only ASCII input is modelled, so the non-ASCII members of the     *)
(* unit character class and of normalizeUnitString's replacements do not   *)
(* occur.                                                                  *)
(***************************************************************************)
\* [a-zA-Z0-9\-\s] of the unit groups
IsUnitChar(c) == IsLetter(c) \/ IsDigit(c) \/ c = "-" \/ IsSpace(c)

\* the end of [0-9]+(?:\.[0-9]+)?(?:[eE][+-]?[0-9]+)? matched at 1, or 0
DecimalEnd(s) ==
    LET intEnd == DigitsEnd(s, 1)
        fracEnd == IF CharAt(s, intEnd) = "." /\ IsDigit(CharAt(s, intEnd + 1))
                   THEN DigitsEnd(s, intEnd + 1) ELSE intEnd
        expStart == IF CharAt(s, fracEnd + 1) \in {"+", "-"}
                    THEN fracEnd + 2 ELSE fracEnd + 1
        expEnd == IF CharAt(s, fracEnd) \in {"e", "E"} /\ IsDigit(CharAt(s, expStart))
                  THEN DigitsEnd(s, expStart) ELSE fracEnd
    IN IF intEnd = 1 THEN 0 ELSE expEnd

\* the end of [0-9]+\/[0-9]+ matched at i, or 0
FractionEndAt(s, i) ==
    LET numEnd == DigitsEnd(s, i)
    IN IF numEnd > i /\ CharAt(s, numEnd) = "/" /\ IsDigit(CharAt(s, numEnd + 1))
       THEN DigitsEnd(s, numEnd + 1) ELSE 0

\* the end of [0-9]+\s+[0-9]+\/[0-9]+ matched at 1, or 0
MixedEnd(s) ==
    LET wholeEnd == DigitsEnd(s, 1)
        fracStart == GobbleSpaces(s, wholeEnd)
    IN IF wholeEnd > 1 /\ fracStart > wholeEnd THEN FractionEndAt(s, fracStart) ELSE 0

\* the unit groups after a number that ends before position i: the
\* source text [p, e] and the target text [t, Len(s)], or no match
UnitsMatch(s, i) ==
    LET p == GobbleSpaces(s, i)
        TargetStart(e) == GobbleSpaces(s, GobbleSpaces(s, e + 1) + 2)
        Matches(e) ==
            LET k == GobbleSpaces(s, e + 1)
                t == TargetStart(e)
            IN /\ \A q \in p..e : IsUnitChar(s[q])
               /\ k > e + 1
               /\ k + 1 <= Len(s)
               /\ ToLowerCase(SubSeq(s, k, k + 1)) \in {<<"t","o">>, <<"a","s">>}
               /\ t > k + 2
               /\ t <= Len(s)
               /\ IsLetter(s[t])
               /\ \A q \in t..Len(s) : IsUnitChar(s[q])
        ends == {e \in p..Len(s) : Matches(e)}
    IN IF p = i \/ ~IsLetter(CharAt(s, p)) \/ ends = {} THEN NULL
       ELSE LET e == CHOOSE a \in ends : \A b \in ends : a <= b
            IN [sourceUnitStr |-> SubSeq(s, p, e),
                targetUnitStr |-> SubSeq(s, TargetStart(e), Len(s))]

\* the three groups of a match whose number ends before numberEnd
MatchGroups(s, numberEnd, units) ==
    IF units = NULL THEN NULL
    ELSE [valueStr |-> SubSeq(s, 1, numberEnd - 1),
          sourceUnitStr |-> units.sourceUnitStr,
          targetUnitStr |-> units.targetUnitStr]

\* the rest of a pattern after its number group
UnitsAfterNumber(s, numberEnd) ==
    IF numberEnd = 0 THEN NULL
    ELSE MatchGroups(s, numberEnd, UnitsMatch(s, numberEnd))

\* trimmed.match(pattern) for the n-th pattern: the three groups, or null
PatternMatch(s, n) ==
    UnitsAfterNumber(s, CASE n = 1 -> DecimalEnd(s)
                          [] n = 2 -> FractionEndAt(s, 1)
                          [] n = 3 -> MixedEnd(s))

\* parseFloat of a text the decimal or scientific pattern matches
ParseFloat(str) ==
    LET lit == GobbleNumericLiteral(str, 1)
    IN lit.node.value

\* the value of [0-9]+/[0-9]+ at i, or null for a zero denominator
FractionValue(str, i) ==
    LET numEnd == DigitsEnd(str, i)
        numerator == DigitsValue(SubSeq(str, i, numEnd - 1))
        denominator == DigitsValue(SubSeq(str, numEnd + 1, Len(str)))
    IN IF denominator = 0 THEN NULL ELSE Rat(numerator, denominator)

\* whole + fraction of a mixed number, or null
MixedValue(whole, fraction) ==
    IF fraction = NULL THEN NULL ELSE DecAdd(Int2Dec(whole), fraction)

\* parseNumericalValue after valueStr.trim()
ParseTrimmedValue(trimmed) ==
    IF DecimalEnd(trimmed) = Len(trimmed) + 1 THEN ParseFloat(trimmed)
    ELSE IF FractionEndAt(trimmed, 1) = Len(trimmed) + 1 THEN FractionValue(trimmed, 1)
    ELSE IF MixedEnd(trimmed) = Len(trimmed) + 1
    THEN MixedValue(DigitsValue(SubSeq(trimmed, 1, DigitsEnd(trimmed, 1) - 1)),
                    FractionValue(trimmed, GobbleSpaces(trimmed, DigitsEnd(trimmed, 1))))
    ELSE NULL

\* parseNumericalValue(valueStr): a number, or null
ParseNumericalValue(valueStr) == ParseTrimmedValue(Trim(valueStr))

\* replace(/\s+/g, ' ')
RECURSIVE CollapseSpaces(_)
CollapseSpaces(s) ==
    IF s = <<>> THEN <<>>
    ELSE IF IsSpace(Head(s))
    THEN <<" ">> \o CollapseSpaces(Suffix(s, GobbleSpaces(s, 1)))
    ELSE <<Head(s)>> \o CollapseSpaces(Tail(s))

\* normalizeUnitString(unitStr)
NormalizeUnitString(unitStr) == Trim(CollapseSpaces(ToLowerCase(Trim(unitStr))))

\* an INVALID_FORMAT ErrorDetails of the parser
FormatError(message) == [type |-> "INVALID_FORMAT", message |-> message]

\* the error for a text no pattern matches, with its four examples
NoPatternMatched ==
    [type |-> "INVALID_FORMAT",
     message |-> "Invalid conversion format",
     suggestions |-> <<"Try: \"5 meters to feet\"",
                       "Try: \"2.5 inches as mm\"",
                       "Try: \"1/2 foot to centimeters\"",
                       "Try: \"1.5e3 mm to meters\"">>]

\* the checks on the parsed value and units, and the ParsedInput
ParsedInput(trimmed, value, sourceUnit, targetUnit) ==
    IF value = NULL THEN FormatError("Invalid number format")
    ELSE IF sourceUnit = targetUnit
    THEN FormatError("Source and target units cannot be the same")
    ELSE [value |-> value, sourceUnit |-> sourceUnit, targetUnit |-> targetUnit,
          originalInput |-> trimmed]

\* the body of parseConversionInput's loop for a pattern that matched
ParsedMatch(trimmed, match) ==
    ParsedInput(trimmed, ParseNumericalValue(match.valueStr),
                NormalizeUnitString(match.sourceUnitStr),
                NormalizeUnitString(match.targetUnitStr))

\* the loop over CONVERSION_PATTERNS from the n-th pattern on
RECURSIVE TryPatterns(_, _)

\* one iteration of the loop: return for a match, else the next pattern
TryPattern(trimmed, n, match) ==
    IF match # NULL THEN ParsedMatch(trimmed, match)
    ELSE TryPatterns(trimmed, n + 1)

TryPatterns(trimmed, n) ==
    IF n > 3 THEN NoPatternMatched
    ELSE TryPattern(trimmed, n, PatternMatch(trimmed, n))

\* parseConversionInput after input.trim()
ParseTrimmed(trimmed) ==
    IF trimmed = <<>> THEN FormatError("Input cannot be empty")
    ELSE TryPatterns(trimmed, 1)

\* parseConversionInput(input): a ParsedInput or an ErrorDetails
ParseConversionInput(input) == ParseTrimmed(Trim(input))

(***************************************************************************)
(* utils/converter.  The functions read the registry through config/index; *)
(* the model hands them the registry's two variables.                      *)
(***************************************************************************)
\* getCategory(categoryName) of config/index
GetCategory(configurations, categoryName) ==
    IF configurations = NULL THEN NULL
    ELSE IF categoryName \in DOMAIN configurations THEN configurations[categoryName]
    ELSE NULL

\* isConfigurationReady() of config/index
IsConfigurationReady(configurations, aliases) ==
    configurations # NULL /\ aliases # NULL

\* findUnit(alias) of config/index
ConfigFindUnit(configurations, alias) ==
    IF configurations = NULL THEN NULL
    ELSE FindUnitByAlias(alias, configurations)

\* validateUnits(sourceUnit, targetUnit) of utils/parser: an ErrorDetails,
\* or null; its findUnit is the one of config/index
ValidateUnits(configurations, sourceUnit, targetUnit) ==
    LET sourceInfo == ConfigFindUnit(configurations, sourceUnit)
        targetInfo == ConfigFindUnit(configurations, targetUnit)
    IN IF sourceInfo = NULL
       THEN [type |-> "UNKNOWN_UNIT", message |-> "Unknown source unit",
             unit |-> sourceUnit, suggestions |-> <<>>]
       ELSE IF targetInfo = NULL
       THEN [type |-> "UNKNOWN_UNIT", message |-> "Unknown target unit",
             unit |-> targetUnit, suggestions |-> <<>>]
       ELSE IF sourceInfo.category # targetInfo.category
       THEN CreateCategoryError(sourceUnit, targetUnit,
                                sourceInfo.category, targetInfo.category)
       ELSE NULL

\* parseAndValidateInput after parseConversionInput
ValidateParsed(configurations, parseResult) ==
    IF Has(parseResult, "type") THEN parseResult
    ELSE IF ValidateUnits(configurations, parseResult.sourceUnit,
                          parseResult.targetUnit) # NULL
    THEN ValidateUnits(configurations, parseResult.sourceUnit, parseResult.targetUnit)
    ELSE parseResult

\* parseAndValidateInput(input)
ParseAndValidateInput(configurations, input) ==
    ValidateParsed(configurations, ParseConversionInput(input))

\* input.split('\n')
RECURSIVE SplitLines(_)
SplitLines(input) ==
    IF \A k \in DOMAIN input : input[k] # "\n" THEN <<input>>
    ELSE LET k == CHOOSE a \in DOMAIN input :
                      input[a] = "\n" /\ \A b \in 1..(a - 1) : input[b] # "\n"
         IN <<SubSeq(input, 1, k - 1)>> \o SplitLines(Suffix(input, k + 1))

\* the pseudo-result of parseMultilineInput for an empty line
EmptyLine == [type |-> "INVALID_FORMAT", message |-> "Empty line"]

\* a parseMultilineInput that filters the empty lines out
ParseLinesSkippingEmpty(configurations, lines) ==
    LET kept == SelectSeq(lines, LAMBDA line : Trim(line) # <<>>)
    IN [i \in DOMAIN kept |-> ParseAndValidateInput(configurations, Trim(kept[i]))]

\* the two maps of parseMultilineInput over the lines
ParseLines(configurations, lines) ==
    [i \in DOMAIN lines |->
        IF Trim(lines[i]) = <<>> THEN EmptyLine
        ELSE ParseAndValidateInput(configurations, Trim(lines[i]))]

\* parseMultilineInput(input)
ParseMultilineInput(configurations, input) ==
    ParseLines(configurations, SplitLines(input))

\* a validateConversionSystem that lets every call through
ValidateConversionSystemSkipped(configurations, aliases) == TRUE

\* validateConversionSystem()
ValidateConversionSystem(configurations, aliases) ==
    IsConfigurationReady(configurations, aliases)

\* the first unit, in Object.entries order, whose aliases include the name
RECURSIVE FirstUnitWithAlias(_, _, _)
FirstUnitWithAlias(configuration, keys, name) ==
    IF keys = <<>> THEN NULL
    ELSE LET unitData == configuration.units[Head(keys)]
         IN IF \E i \in DOMAIN unitData.aliases : unitData.aliases[i] = name
            THEN [unitKey |-> Head(keys), conversionFactor |-> FactorOf(unitData)]
            ELSE FirstUnitWithAlias(configuration, Tail(keys), name)

\* findUnitInCategory(unitName, configuration)
FindUnitInCategory(unitName, configuration) ==
    IF unitName \in DOMAIN configuration.units
    THEN [unitKey |-> unitName,
          conversionFactor |-> FactorOf(configuration.units[unitName])]
    \* configuration.units[unitName] also finds what the object inherits
    \* from Object.prototype; such a value has no factor
    ELSE IF unitName \in ObjectPrototypeKeys
    THEN [unitKey |-> unitName, conversionFactor |-> UNDEFINED]
    ELSE FirstUnitWithAlias(configuration, UnitKeys(configuration), ToLowerCase(unitName))

\* the categories the converter's findUnit searches
SearchedCategories == <<"length">>

RECURSIVE FindUnitIn(_, _, _)
FindUnitIn(configurations, categories, normalizedUnit) ==
    IF categories = <<>> THEN NULL
    ELSE LET category == Head(categories)
             configuration == GetCategory(configurations, category)
             unitInfo == IF configuration = NULL THEN NULL
                         ELSE FindUnitInCategory(normalizedUnit, configuration)
         IN IF unitInfo # NULL
            THEN [category |-> category, unitKey |-> unitInfo.unitKey,
                  conversionFactor |-> unitInfo.conversionFactor]
            ELSE FindUnitIn(configurations, Tail(categories), normalizedUnit)

\* an argument that is not a string (undefined); no string of characters
\* equals it
NotAString == <<"undefined">>

\* the outcome is a throw
IsThrown(outcome) == IF Has(outcome, "threw") THEN outcome.threw ELSE FALSE

\* the converter's findUnit(unitName); unitName.toLowerCase() throws a
\* TypeError for an argument that is not a string
FindUnit(configurations, unitName) ==
    IF unitName = NotAString THEN TypeError
    ELSE FindUnitIn(configurations, SearchedCategories, Trim(ToLowerCase(unitName)))

\* performConversion(inputValue, sourceFactor, targetFactor)
PerformConversion(inputValue, sourceFactor, targetFactor) ==
    DecDiv(DecMul(inputValue, sourceFactor), targetFactor)

\* a failed ConversionResult
Failure(error) == [success |-> FALSE, error |-> error]

NotInitialized ==
    Failure(CreateCalculationError("Conversion system not initialized",
                                   "Configuration files not loaded. Please try again."))

\* the successful ConversionResult; the text of formattedValue is left out
Converted(inputValue, sourceUnit, targetUnit, category, result) ==
    [success |-> TRUE,
     value |-> result,
     sourceUnit |-> sourceUnit,
     targetUnit |-> targetUnit,
     calculation |-> [inputValue |-> inputValue,
                      sourceUnit |-> sourceUnit,
                      targetUnit |-> targetUnit,
                      outputValue |-> result,
                      precision |-> "high",
                      category |-> category]]

\* the catch of convertUnits: a throw becomes a calculation error
UnexpectedFailure(thrown) ==
    Failure(CreateCalculationError(thrown.message,
                "An unexpected error occurred during conversion"))

\* convertUnits after its two findUnit calls
ConvertResolved(aliases, inputValue, sourceUnit, targetUnit, sourceInfo, targetInfo) ==
    IF IsThrown(sourceInfo) THEN UnexpectedFailure(sourceInfo)
    ELSE IF sourceInfo = NULL
    THEN Failure(EnhanceErrorWithSuggestions(aliases,
                     CreateUnknownUnitError(aliases, sourceUnit, TRUE)))
    ELSE IF IsThrown(targetInfo) THEN UnexpectedFailure(targetInfo)
    ELSE IF targetInfo = NULL
    THEN Failure(EnhanceErrorWithSuggestions(aliases,
                     CreateUnknownUnitError(aliases, targetUnit, FALSE)))
    ELSE IF sourceInfo.category # targetInfo.category
    THEN Failure(CreateCategoryError(sourceUnit, targetUnit,
                                     sourceInfo.category, targetInfo.category))
    \* new Decimal(undefined) throws; the outer catch wraps the throw
    ELSE IF ~IsDecimal(sourceInfo.conversionFactor)
            \/ ~IsDecimal(targetInfo.conversionFactor)
    THEN UnexpectedFailure(DecimalError)
    ELSE Converted(inputValue, sourceUnit, targetUnit, sourceInfo.category,
                   PerformConversion(inputValue, sourceInfo.conversionFactor,
                                     targetInfo.conversionFactor))

\* the failure of convertUnits for a value that is not finite
InvalidInputValue ==
    Failure(CreateCalculationError("Invalid input value",
                                   "Input must be a valid number"))

\* a convertUnits that resolves the two units before it looks at the value
ConvertUnitsResolvingFirst(configurations, aliases, inputValue, sourceUnit, targetUnit) ==
    IF ~ValidateConversionSystem(configurations, aliases) THEN NotInitialized
    ELSE LET resolved == ConvertResolved(aliases, Int2Dec(1), sourceUnit, targetUnit,
                                         FindUnit(configurations, sourceUnit),
                                         FindUnit(configurations, targetUnit))
         IN IF ~resolved.success THEN resolved
            ELSE IF ~IsFiniteNum(inputValue) THEN InvalidInputValue
            ELSE ConvertResolved(aliases, inputValue, sourceUnit, targetUnit,
                                 FindUnit(configurations, sourceUnit),
                                 FindUnit(configurations, targetUnit))

\* convertUnits(inputValue, sourceUnit, targetUnit)
ConvertUnits(configurations, aliases, inputValue, sourceUnit, targetUnit) ==
    IF ~ValidateConversionSystem(configurations, aliases) THEN NotInitialized
    ELSE IF ~IsFiniteNum(inputValue) THEN InvalidInputValue
    ELSE ConvertResolved(aliases, inputValue, sourceUnit, targetUnit,
                         FindUnit(configurations, sourceUnit),
                         FindUnit(configurations, targetUnit))

\* validateConversion after its two findUnit calls; it has no catch, and
\* a throw of findUnit leaves it as a throw
ValidateResolved(aliases, sourceUnit, targetUnit, sourceInfo, targetInfo) ==
    IF IsThrown(sourceInfo) THEN sourceInfo
    ELSE IF sourceInfo = NULL
    THEN [isValid |-> FALSE,
          error |-> EnhanceErrorWithSuggestions(aliases,
                        CreateUnknownUnitError(aliases, sourceUnit, TRUE))]
    ELSE IF IsThrown(targetInfo) THEN targetInfo
    ELSE IF targetInfo = NULL
    THEN [isValid |-> FALSE,
          error |-> EnhanceErrorWithSuggestions(aliases,
                        CreateUnknownUnitError(aliases, targetUnit, FALSE))]
    ELSE IF sourceInfo.category # targetInfo.category
    THEN [isValid |-> FALSE,
          error |-> CreateCategoryError(sourceUnit, targetUnit,
                                        sourceInfo.category, targetInfo.category)]
    ELSE [isValid |-> TRUE]

\* validateConversion(sourceUnit, targetUnit)
ValidateConversion(configurations, aliases, sourceUnit, targetUnit) ==
    ValidateResolved(aliases, sourceUnit, targetUnit,
                     FindUnit(configurations, sourceUnit),
                     FindUnit(configurations, targetUnit))

\* convertFromInput after parseConversionInput: a parse result with a
\* type is an error and is returned as the failure
ConvertParsed(configurations, aliases, parseResult) ==
    IF Has(parseResult, "type") THEN Failure(parseResult)
    ELSE ConvertUnits(configurations, aliases, parseResult.value,
                      parseResult.sourceUnit, parseResult.targetUnit)

\* convertFromInput(input); input.trim() of the parser throws for an
\* input that is not a string, and the catch wraps the throw
ConvertFromInput(configurations, aliases, input) ==
    IF input = NotAString
    THEN Failure(CreateCalculationError(TypeError.message,
                     "Failed to process conversion input"))
    ELSE ConvertParsed(configurations, aliases, ParseConversionInput(input))

(***************************************************************************)
(* The evaluator on its own: a formula and a value for x are drawn, then   *)
(* one of the module's two exports is applied to them.                     *)
(***************************************************************************)
MaxFormulaLen == 3

\* formulas of the shapes the unit configurations and their tests use,
\* and calls of names that are not fnMap's own keys
Formulas ==
    [Reciprocal |-> <<"1","/","(","x","*","1","2",")">>,
     Offset |-> <<"(","x","-","3","2",")","*","5","/","9">>,
     Scale |-> <<"x"," ","*"," ","0",".","5">>,
     Power |-> <<"2","^","x">>,
     Min |-> <<"m","i","n","(","x",","," ","1",")">>,
     Modulo |-> <<"x"," ","%"," ","0">>,
     Quote |-> <<"x","+","'","1","'">>,
     Bracket |-> <<"x","[","0","]">>,
     Foreign |-> <<"f","o","o","(","x",")">>,
     Constructor |-> <<"c","o","n","s","t","r","u","c","t","o","r","(","x",")">>,
     ToString |-> <<"t","o","S","t","r","i","n","g","(","x",")">>,
     ValueOf |-> <<"v","a","l","u","e","O","f","(",")">>]

\* the formulas evaluated: every string of up to MaxFormulaLen characters
\* out of the variable, another letter, digits, operators, parentheses and
\* a statement separator, and the formulas above
EvalFormulas ==
    UNION {[1..n -> {"x", "a", "0", "1", "/", "-", "(", ")", ";"}] :
              n \in 1..MaxFormulaLen}
        \cup {Formulas[name] : name \in DOMAIN Formulas}

EvalXValues == {Int2Dec(0), Int2Dec(1), Int2Dec(2)}

\* the registry is not involved in an evaluation
RegistryIdle ==
    /\ configDocs = NULL
    /\ globalConfigurations = NULL
    /\ globalAliases = NULL
    /\ configurationPromise = NULL
    /\ microtasks = <<>>
    /\ awaiting = <<>>
    /\ loadCount = 0
    /\ initCalls = 0
    /\ lastCall = NULL
    /\ lastResult = NULL

InitEval ==
    /\ RegistryIdle
    /\ evalExpr \in EvalFormulas
    /\ evalX \in EvalXValues
    /\ evalOutcome = NULL
    /\ AppIdle

\* a call of evaluateTransform(evalExpr, evalX)
EvaluateTransformCall ==
    /\ evalOutcome = NULL
    /\ evalOutcome' = [call |-> "evaluateTransform",
                       out |-> EvaluateTransform(evalExpr, evalX)]
    /\ UNCHANGED <<registryVars, callVars, evalExpr, evalX, appVars>>

\* a call of evaluateExpressionToNumber(evalExpr, evalX)
EvaluateExpressionToNumberCall ==
    /\ evalOutcome = NULL
    /\ evalOutcome' = [call |-> "evaluateExpressionToNumber",
                       out |-> EvaluateExpressionToNumber(evalExpr, evalX)]
    /\ UNCHANGED <<registryVars, callVars, evalExpr, evalX, appVars>>

NextEval == EvaluateTransformCall \/ EvaluateExpressionToNumberCall

SpecEval == InitEval /\ [][NextEval]_vars

(***************************************************************************)
(* Properties of the evaluator, stated over SpecEval.                      *)
(***************************************************************************)
\* the call of evaluateTransform has been made
TransformEvaluated ==
    /\ evalOutcome # NULL
    /\ evalOutcome.call = "evaluateTransform"

\* the call of evaluateExpressionToNumber has been made
NumberEvaluated ==
    /\ evalOutcome # NULL
    /\ evalOutcome.call = "evaluateExpressionToNumber"

\* the tree jsep builds for a formula that passes the allow-list
FormulaTree(expr) == Jsep(ReplaceCaret(expr))

\* some division (or remainder) in the tree has a divisor that evaluates
\* to zero for this x
RECURSIVE ZeroDivisorIn(_, _)
ZeroDivisorIn(node, xValue) ==
    CASE node.type = "BinaryExpression" ->
            \/ /\ node.operator \in {"/", "%"}
               /\ LET right == EvalNode(node.right, xValue)
                  IN ~right.threw /\ IsDecimal(right.value) /\ IsZero(right.value)
            \/ ZeroDivisorIn(node.left, xValue)
            \/ ZeroDivisorIn(node.right, xValue)
      [] node.type = "UnaryExpression" -> ZeroDivisorIn(node.argument, xValue)
      [] node.type = "CallExpression" ->
            \E i \in DOMAIN node.arguments : ZeroDivisorIn(node.arguments[i], xValue)
      [] OTHER -> FALSE

\* the formula is well formed and divides by zero for this x
DividesByZero(expr, xValue) ==
    /\ expr # <<>>
    /\ AllowListTest(expr)
    /\ ZeroDivisorIn(FormulaTree(expr), xValue)

\* C8: evaluating a formula in which some division has a zero divisor for
\* the bound x fails with an error, and evaluateTransform never returns
\* Infinity or NaN.
C8_DivisionByZeroFails ==
    TransformEvaluated =>
        /\ DividesByZero(evalExpr, evalX) => evalOutcome.out.threw
        /\ ~evalOutcome.out.threw =>
               evalOutcome.out.value \notin {Infinity(1), Infinity(-1), NaN}

\* the tree mentions an identifier other than x/X, or calls something other
\* than one of fnMap's six own keys
RECURSIVE ForeignNameIn(_)
ForeignNameIn(node) ==
    CASE node.type = "Identifier" -> node.name \notin {<<"x">>, <<"X">>}
      [] node.type = "UnaryExpression" -> ForeignNameIn(node.argument)
      [] node.type = "BinaryExpression" ->
            ForeignNameIn(node.left) \/ ForeignNameIn(node.right)
      [] node.type = "CallExpression" ->
            \/ IF node.callee.type = "Identifier"
               THEN node.callee.name \notin FnMapOwnKeys
               ELSE TRUE
            \/ \E i \in DOMAIN node.arguments : ForeignNameIn(node.arguments[i])
      [] node.type = "MemberExpression" -> TRUE
      [] OTHER -> FALSE

\* the formula is well formed and uses a name outside the whitelist
UsesForeignName(expr) ==
    /\ expr # <<>>
    /\ AllowListTest(expr)
    /\ ForeignNameIn(FormulaTree(expr))

\* C9: evaluating a formula that references an identifier other than x/X,
\* or calls a function other than abs, neg, sqrt, pow, min, max, always
\* fails with an error and never yields a value.
C9_ForeignNamesFail ==
    (TransformEvaluated /\ UsesForeignName(evalExpr)) => evalOutcome.out.threw

\* the formula has a character outside the allow-list
HasDisallowedChar(expr) == \E i \in DOMAIN expr : ~AllowedChar(expr[i])

\* C10: a formula with at least one character outside the allow-list is
\* rejected by the allow-list check, before jsep parses it and before
\* evalNode runs on any part of it; evaluateExpressionToNumber yields null.
C10_RejectedBeforeParsing ==
    (evalOutcome # NULL /\ HasDisallowedChar(evalExpr)) =>
        IF evalOutcome.call = "evaluateTransform"
        THEN /\ evalOutcome.out.threw
             /\ evalOutcome.out.phase = "check"
             /\ evalOutcome.out.message = "Invalid characters in transform expression"
        ELSE evalOutcome.out = NULL

\* a formula whose first characters are allowed and would parse, followed
\* by a quote, has been rejected by the allow-list check
C10_QuoteRejected ==
    /\ TransformEvaluated
    /\ evalExpr = Formulas.Quote
    /\ AllowedChar(evalExpr[1])
    /\ HasDisallowedChar(evalExpr)
    /\ evalOutcome.out.threw
    /\ evalOutcome.out.phase = "check"

(***************************************************************************)
(* config/index and its callers.  initializeConfigurations is an async     *)
(* function: a call runs up to its first await, and what is left of it     *)
(* runs later from the microtask queue.  Callers' synchronous calls        *)
(* (reads, resets, further initializations) may come in between.           *)
(***************************************************************************)
MaxInitCalls == 2

\* what callers pass in
UnitTokens == {Units.m, <<" ","F","t">>, <<"m","e","t","e","r">>, Units.gal, Units.rm}
TargetTokens == {Units.m, <<" ","F","t">>, Units.gal}
\* tokens no document declares: an inherited property name, the empty
\* string, and a name close to no alias
UndeclaredTokens == {FnNames.constructor, <<>>, <<"z","z">>}
\* the convertUnits calls: a finite value with the pairs of tokens, units
\* defined by a transform only, the values that are not finite, and
\* undeclared or non-string tokens on either side
ConvertCalls ==
    ({Int2Dec(2)} \X UnitTokens \X TargetTokens)
    \cup {<<Int2Dec(2), Units.rm, Units.rm>>,
          <<Int2Dec(2), Units.m, Units.rm>>,
          <<Int2Dec(2), Units.m, Units.zr>>,
          <<Int2Dec(2), Units.zr, Units.zr>>,
          <<NaN, Units.m, Units.ft>>,
          <<Infinity(1), Units.m, <<"z","z">>>>,
          <<Infinity(-1), NotAString, Units.m>>,
          <<Int2Dec(2), Units.m, FnNames.constructor>>,
          <<Int2Dec(2), Units.m, NotAString>>}
    \cup ({Int2Dec(2)} \X (UndeclaredTokens \cup {NotAString}) \X {Units.m})
\* the validateConversion calls
ValidateCalls ==
    (TargetTokens \X {Units.m})
    \cup {<<Units.m, Units.gal>>, <<Units.m, NotAString>>}
    \cup ((UndeclaredTokens \cup {NotAString}) \X {Units.m})
InputLines ==
    {<<>>,
     <<"5"," ","m">>,
     <<"5"," ","m"," ","t","o"," ","f","t">>,
     <<"1","/","2"," ","f","t"," ","a","s"," ","g","a","l">>,
     <<"4"," ","r","m"," ","t","o"," ","m">>,
     NotAString}
CategoryQueries == {"length", "volume", "pressure"}
\* the texts of several lines: an empty line between two conversions, a
\* conversion after an empty line and before a line of spaces, two empty
\* lines, and a text of one line
MultilineTexts ==
    {<<"5"," ","m"," ","t","o"," ","f","t","\n","\n","5"," ","z","z"," ","t","o"," ","m">>,
     <<"\n"," ","5"," ","m","\n"," ">>,
     <<"\n">>,
     <<"5"," ","f","t"," ","a","s"," ","m">>}
\* the processConversions calls: each text with the configuration loaded,
\* and one before it is
ProcessCalls ==
    ({TRUE} \X MultilineTexts)
    \cup {<<FALSE, <<"\n"," ","5"," ","m","\n"," ">>>>}
\* the texts handed to parseAndValidateInput
ValidatedLines ==
    {<<"5"," ","m"," ","t","o"," ","f","t">>,
     <<"5"," ","z","z"," ","t","o"," ","m">>,
     <<"5"," ","m"," ","a","s"," ","g","a","l">>,
     <<"5"," ","m">>}

\* the evaluator harness is not involved
EvalIdle ==
    /\ evalExpr = NULL
    /\ evalX = NULL
    /\ evalOutcome = NULL

Init ==
    /\ configDocs \in DocSets
    /\ globalConfigurations = NULL
    /\ globalAliases = NULL
    /\ configurationPromise = NULL
    /\ microtasks = <<>>
    /\ awaiting = <<>>
    /\ loadCount = 0
    /\ initCalls = 0
    /\ lastCall = NULL
    /\ lastResult = NULL
    /\ EvalIdle
    /\ AppIdle

\* a call and what it returned; ready records isConfigurationReady() at
\* the moment of the call
Observe(op, args, result) ==
    /\ lastCall' = [op |-> op, args |-> args,
                    ready |-> IsConfigurationReady(globalConfigurations, globalAliases)]
    /\ lastResult' = result

\* the promise of the id-th initialization
Promise(id) == [id |-> id]

\* the async arrow function of that promise has run to its end
Settled(id) ==
    \A i \in DOMAIN microtasks :
        ~(microtasks[i].kind = "iife" /\ microtasks[i].promise = id)

\* initializeConfigurations() with no configurationPromise: the arrow
\* function is started, runs loadAllConfigurations() and suspends at its
\* await; the caller suspends on the new promise
InitializeConfigurationsCall ==
    /\ initCalls < MaxInitCalls
    /\ configurationPromise = NULL
    /\ loadCount' = loadCount + 1
    /\ initCalls' = initCalls + 1
    /\ configurationPromise' = Promise(loadCount + 1)
    /\ microtasks' = Append(microtasks,
                            [kind |-> "iife", promise |-> loadCount + 1,
                             result |-> LoadAllConfigurations(configDocs)])
    /\ awaiting' = Append(awaiting, [promise |-> loadCount + 1, call |-> initCalls + 1])
    /\ Observe("initializeConfigurations", <<initCalls + 1>>, JsValue("promise"))
    /\ UNCHANGED <<configDocs, globalConfigurations, globalAliases, evalVars, appVars>>

\* initializeConfigurations() with a configurationPromise, were the memoised
\* promise not consulted: a further load is started
InitializeConfigurationsJoinLoadingAgain ==
    /\ initCalls < MaxInitCalls
    /\ configurationPromise # NULL
    /\ loadCount' = loadCount + 1
    /\ initCalls' = initCalls + 1
    /\ configurationPromise' = Promise(loadCount + 1)
    /\ microtasks' = Append(microtasks,
                            [kind |-> "iife", promise |-> loadCount + 1,
                             result |-> LoadAllConfigurations(configDocs)])
    /\ awaiting' = Append(awaiting, [promise |-> loadCount + 1, call |-> initCalls + 1])
    /\ Observe("initializeConfigurations", <<initCalls + 1>>, JsValue("promise"))
    /\ UNCHANGED <<configDocs, globalConfigurations, globalAliases, evalVars, appVars>>

\* initializeConfigurations() with a configurationPromise: the caller
\* awaits that promise
InitializeConfigurationsJoin ==
    /\ initCalls < MaxInitCalls
    /\ configurationPromise # NULL
    /\ initCalls' = initCalls + 1
    /\ IF Settled(configurationPromise.id)
       THEN /\ microtasks' = Append(microtasks,
                                    [kind |-> "return",
                                     promise |-> configurationPromise.id,
                                     call |-> initCalls + 1])
            /\ UNCHANGED awaiting
       ELSE /\ awaiting' = Append(awaiting, [promise |-> configurationPromise.id,
                                             call |-> initCalls + 1])
            /\ UNCHANGED microtasks
    /\ Observe("initializeConfigurations", <<initCalls + 1>>, JsValue("promise"))
    /\ UNCHANGED <<configDocs, globalConfigurations, globalAliases,
                   configurationPromise, loadCount, evalVars, appVars>>

\* the two module variables after the arrow function's try block
PublishedAfterLoad(result) ==
    IF result.success
    THEN [configurations |-> result.categories,
          aliases |-> GetAllUnitAliases(result.categories)]
    ELSE [configurations |-> NULL, aliases |-> NULL]

\* the assignments to the two module variables
Publish(after) ==
    /\ globalConfigurations' = after.configurations
    /\ globalAliases' = after.aliases

\* the callers that were awaiting the promise, as microtasks
Continuations(id) ==
    LET waiting == SelectSeq(awaiting, LAMBDA w : w.promise = id)
    IN [i \in DOMAIN waiting |->
           [kind |-> "return", promise |-> id, call |-> waiting[i].call]]

\* the arrow function resumes after `await loadAllConfigurations()`, sets
\* the module variables and ends, which settles its promise
ResumeInitialization ==
    /\ microtasks # <<>>
    /\ Head(microtasks).kind = "iife"
    /\ Publish(PublishedAfterLoad(Head(microtasks).result))
    /\ microtasks' = Tail(microtasks) \o Continuations(Head(microtasks).promise)
    /\ awaiting' = SelectSeq(awaiting, LAMBDA w : w.promise # Head(microtasks).promise)
    /\ UNCHANGED <<configDocs, configurationPromise, loadCount, initCalls,
                   callVars, evalVars, appVars>>

\* a caller resumes after `await configurationPromise` and returns
\* globalConfigurations !== null
InitializeConfigurationsReturn ==
    /\ microtasks # <<>>
    /\ Head(microtasks).kind = "return"
    /\ microtasks' = Tail(microtasks)
    /\ Observe("initializeConfigurations returned", <<Head(microtasks).call>>,
               globalConfigurations # NULL)
    /\ UNCHANGED <<configDocs, globalConfigurations, globalAliases,
                   configurationPromise, awaiting, loadCount, initCalls, evalVars, appVars>>

\* globalAliases after resetConfigurations, were it left alone
KeepAliases(aliases) == aliases

\* globalAliases after resetConfigurations
ResetAliases(aliases) == NULL

\* resetConfigurations()
ResetConfigurations ==
    /\ globalConfigurations' = NULL
    /\ globalAliases' = ResetAliases(globalAliases)
    /\ configurationPromise' = NULL
    /\ Observe("resetConfigurations", <<>>, UNDEFINED)
    /\ UNCHANGED <<configDocs, microtasks, awaiting, loadCount, initCalls, evalVars, appVars>>

\* the calls that read the registry
ReadOps ==
    {"getConfigurations", "getAliases", "isConfigurationReady", "getCategory",
     "findUnit", "findSimilarUnits", "convertUnits", "convertFromInput",
     "validateConversion", "parseAndValidateInput", "parseConversionInput",
     "parseMultilineInput", "processConversions"}

\* A read is observed in every state the registry operations reach, once:
\* the observation of a read is not itself followed by the observation
\* of another read.
ReadObservable == IF lastCall = NULL THEN TRUE ELSE lastCall.op \notin ReadOps

\* what a call that only reads the registry leaves alone
ReadOnly == ReadObservable /\ UNCHANGED <<registryVars, evalVars, appVars>>

\* getConfigurations()
GetConfigurationsCall ==
    /\ ReadOnly
    /\ Observe("getConfigurations", <<>>, globalConfigurations)

\* getAliases()
GetAliasesCall ==
    /\ ReadOnly
    /\ Observe("getAliases", <<>>, globalAliases)

\* isConfigurationReady()
IsConfigurationReadyCall ==
    /\ ReadOnly
    /\ Observe("isConfigurationReady", <<>>,
               IsConfigurationReady(globalConfigurations, globalAliases))

\* getCategory(categoryName)
GetCategoryCall(categoryName) ==
    /\ ReadOnly
    /\ Observe("getCategory", <<categoryName>>,
               GetCategory(globalConfigurations, categoryName))

\* findUnit(alias) of config/index
FindUnitCall(alias) ==
    /\ ReadOnly
    /\ Observe("findUnit", <<alias>>, ConfigFindUnit(globalConfigurations, alias))

\* findSimilarUnits(query)
FindSimilarUnitsCall(query) ==
    /\ ReadOnly
    /\ Observe("findSimilarUnits", <<query>>, FindSimilarUnits(globalAliases, query, 5))

\* a convertUnits that remembers the source token it resolved in the
\* alias object
ConvertUnitsCallMemoizing(inputValue, sourceUnit, targetUnit) ==
    /\ ReadObservable
    /\ Observe("convertUnits", <<inputValue, sourceUnit, targetUnit>>,
               ConvertUnits(globalConfigurations, globalAliases,
                            inputValue, sourceUnit, targetUnit))
    /\ globalAliases' =
           IF globalAliases # NULL /\ sourceUnit # NotAString
              /\ FindUnit(globalConfigurations, sourceUnit) # NULL
              /\ sourceUnit \notin AliasKeySet(globalAliases)
           THEN Append(globalAliases,
                       [alias |-> sourceUnit,
                        category |-> FindUnit(globalConfigurations, sourceUnit).category,
                        unit |-> FindUnit(globalConfigurations, sourceUnit).unitKey])
           ELSE globalAliases
    /\ UNCHANGED <<configDocs, globalConfigurations, configurationPromise,
                   microtasks, awaiting, loadCount, initCalls, evalVars, appVars>>

\* convertUnits(inputValue, sourceUnit, targetUnit)
ConvertUnitsCall(inputValue, sourceUnit, targetUnit) ==
    /\ ReadOnly
    /\ Observe("convertUnits", <<inputValue, sourceUnit, targetUnit>>,
               ConvertUnits(globalConfigurations, globalAliases,
                            inputValue, sourceUnit, targetUnit))

\* convertFromInput(input): the function has no await, so the promise it
\* returns is settled with this result when the call returns
ParseAndValidateInputCall(input) ==
    /\ ReadOnly
    /\ Observe("parseAndValidateInput", <<input>>,
               ParseAndValidateInput(globalConfigurations, input))

\* convertToAppResult(converterResult, originalInput, lineIndex) of App;
\* a successful result always has a formattedValue, whose text is left out
ConvertToAppResult(converterResult, originalInput, lineIndex) ==
    IF converterResult.success
    THEN [id |-> [kind |-> "result", index |-> lineIndex],
          input |-> originalInput,
          output |-> [value |-> converterResult.value,
                      targetUnit |-> converterResult.targetUnit],
          success |-> TRUE]
    ELSE [id |-> [kind |-> "error", index |-> lineIndex],
          input |-> originalInput,
          error |-> converterResult.error.message,
          success |-> FALSE]

\* the loop of processConversions over the lines: one result is pushed for
\* each line, a placeholder for a line that is empty after trim; the
\* saving of a successful conversion to local storage is left out
ProcessLines(configurations, aliases, lines) ==
    [i \in DOMAIN lines |->
        IF Trim(lines[i]) = <<>>
        THEN [id |-> [kind |-> "empty", index |-> i - 1],
              input |-> <<>>, output |-> <<>>, success |-> TRUE]
        ELSE ConvertToAppResult(
                 ConvertFromInput(configurations, aliases, Trim(lines[i])),
                 Trim(lines[i]), i - 1)]

\* processConversions(value) of App: what it hands to setResults (null
\* when it does not call setResults) and to setProcessingError
ProcessConversions(configurations, aliases, isConfigurationLoaded, value) ==
    IF Trim(value) = <<>>
    THEN [results |-> <<>>, processingError |-> NULL]
    ELSE IF ~isConfigurationLoaded
    THEN [results |-> NULL,
          processingError |-> "Configuration not loaded yet. Please wait..."]
    ELSE [results |-> ProcessLines(configurations, aliases, SplitLines(value)),
          processingError |-> NULL]

ParseMultilineInputCall(input) ==
    /\ ReadOnly
    /\ Observe("parseMultilineInput", <<input>>,
               ParseMultilineInput(globalConfigurations, input))

ProcessConversionsCall(isConfigurationLoaded, value) ==
    /\ ReadOnly
    /\ Observe("processConversions", <<isConfigurationLoaded, value>>,
               ProcessConversions(globalConfigurations, globalAliases,
                                  isConfigurationLoaded, value))

ConvertFromInputCall(input) ==
    /\ ReadOnly
    /\ Observe("convertFromInput", <<input>>,
               ConvertFromInput(globalConfigurations, globalAliases, input))

\* validateConversion(sourceUnit, targetUnit)
ValidateConversionCall(sourceUnit, targetUnit) ==
    /\ ReadOnly
    /\ Observe("validateConversion", <<sourceUnit, targetUnit>>,
               ValidateConversion(globalConfigurations, globalAliases,
                                  sourceUnit, targetUnit))

(***************************************************************************)
(* The parser alone: parseConversionInput reads no state, and is called on *)
(* every text of a bounded length over a few characters and on the texts   *)
(* of the shapes the patterns accept.                                      *)
(***************************************************************************)
MaxLineLen == 3

ParserInputs ==
    {<<>>}
    \cup UNION {[1..n -> {"5", " ", "m", "/", "t"}] : n \in 1..MaxLineLen}
    \cup (InputLines \ {NotAString})
    \cup ValidatedLines
    \cup {<<"5"," ","m","e","t","e","r","s">>,
          <<"5","m"," ","t","o"," ","f","t">>,
          <<"5"," ","m"," ","t","o">>,
          <<"t","o"," ","f","t">>,
          <<"5"," ","m"," ","i","n"," ","f","t">>,
          <<"1"," ","1","/","2"," ","m"," ","T","O"," ","f","t">>,
          <<"5"," ","m"," ","t","o"," ","M">>,
          <<" ","5"," ","m"," ","a","s"," ","f","t"," ">>}

InitParse == RegistryIdle /\ EvalIdle /\ AppIdle

\* parseConversionInput(input)
ParseConversionInputCall(input) ==
    /\ ReadOnly
    /\ Observe("parseConversionInput", <<input>>, ParseConversionInput(input))

NextParse == \E input \in ParserInputs : ParseConversionInputCall(input)

SpecParse == InitParse /\ [][NextParse]_vars

Next ==
    \/ InitializeConfigurationsCall
    \/ InitializeConfigurationsJoin
    \/ ResumeInitialization
    \/ InitializeConfigurationsReturn
    \/ ResetConfigurations
    \/ GetConfigurationsCall
    \/ GetAliasesCall
    \/ IsConfigurationReadyCall
    \/ \E categoryName \in CategoryQueries : GetCategoryCall(categoryName)
    \/ \E alias \in UnitTokens : FindUnitCall(alias)
    \/ \E query \in UnitTokens : FindSimilarUnitsCall(query)
    \/ \E call \in ConvertCalls : ConvertUnitsCall(call[1], call[2], call[3])
    \/ \E input \in InputLines : ConvertFromInputCall(input)
    \/ \E call \in ValidateCalls : ValidateConversionCall(call[1], call[2])
    \/ \E input \in ValidatedLines : ParseAndValidateInputCall(input)
    \/ \E input \in MultilineTexts : ParseMultilineInputCall(input)
    \/ \E call \in ProcessCalls : ProcessConversionsCall(call[1], call[2])

Spec == Init /\ [][Next]_vars

(***************************************************************************)
(* Properties of the registry and of the converter.  A call is judged in   *)
(* the state that observes it: lastCall names the call and its arguments,  *)
(* lastResult is what it returned, and the registry variables are the ones *)
(* the call read.                                                          *)
(***************************************************************************)
\* the last observation is a call of one of the operations
Called(ops) == IF lastCall = NULL THEN FALSE ELSE lastCall.op \in ops

\* the document sets in which the loading of some category fails
DocsThatFail ==
    {docs \in DocSets :
        \E c \in Range(CategoryOrder) : LoadUnitCategory(docs[c], c) = NULL}

\* the document sets in which a category fails after "length" has loaded
DocsThatFailLate ==
    {docs \in DocsThatFail : LoadUnitCategory(docs["length"], "length") # NULL}

\* every initialization that was started has run to its end, and no reset
\* has followed the last one
InitializationCompleted ==
    /\ configurationPromise # NULL
    /\ microtasks = <<>>
    /\ awaiting = <<>>

\* C1: when the loading of any one category fails, no registry is
\* published: both module variables stay null, so getConfigurations() and
\* getAliases() return null, isConfigurationReady() is false,
\* initializeConfigurations() resolves to false, and getCategory and
\* findUnit return null also for the categories that loaded before the
\* failing one.
C1_FailedLoadPublishesNothing ==
    configDocs \in DocsThatFail =>
        /\ globalConfigurations = NULL
        /\ globalAliases = NULL
        /\ Called({"getConfigurations", "getAliases", "getCategory", "findUnit"}) =>
               lastResult = NULL
        /\ Called({"isConfigurationReady", "initializeConfigurations returned"}) =>
               lastResult = FALSE

\* an initialization has completed over documents whose failing category
\* comes after "length", and getCategory("length") returned null
C1_EarlierCategoryUnreachable ==
    /\ configDocs \in DocsThatFailLate
    /\ InitializationCompleted
    /\ Called({"getCategory"})
    /\ lastCall.args = <<"length">>
    /\ lastResult = NULL

\* the result convertFromInput is to return while no registry is
\* published: the parser's error for a text the parser rejects, and the
\* not-initialized failure for every text it accepts
UnpublishedInputResult(parseResult) ==
    IF Has(parseResult, "type") THEN Failure(parseResult) ELSE NotInitialized

\* C2, as amended: while no registry is published, convertUnits returns
\* the not-initialized failure for every input; convertFromInput returns
\* the parser's INVALID_FORMAT error for a text the parser rejects and the
\* not-initialized failure for every text it accepts; neither returns a
\* success.
C2_UnpublishedConversionsFail ==
    (Called({"convertUnits", "convertFromInput"}) /\ ~lastCall.ready) =>
        /\ ~lastResult.success
        /\ lastCall.op = "convertUnits" => lastResult = NotInitialized
        /\ (lastCall.op = "convertFromInput" /\ lastCall.args[1] # NotAString) =>
               lastResult = UnpublishedInputResult(ParseConversionInput(lastCall.args[1]))

\* after a failed initialization, convertFromInput of a text the parser
\* accepts has returned the not-initialized failure
C2_ParsedInputNotInitialized ==
    /\ configDocs \in DocsThatFail
    /\ InitializationCompleted
    /\ Called({"convertFromInput"})
    /\ ~lastCall.ready
    /\ lastCall.args = <<<<"5"," ","m"," ","t","o"," ","f","t">>>>
    /\ lastResult = NotInitialized

\* C2, as stated: while no registry is published, every call to
\* convertUnits or convertFromInput, for every input, returns the failure
\* that reports that the conversion system is not initialized.
C2_EveryCallReportsNotInitialized ==
    (Called({"convertUnits", "convertFromInput"}) /\ ~lastCall.ready) =>
        lastResult = NotInitialized

\* C3: in every reachable state the category map and the alias index are
\* both null or both present, and a present alias index is the one
\* getAllUnitAliases builds from the present category map.
C3_RegistryPublishedWhole ==
    /\ globalConfigurations = NULL <=> globalAliases = NULL
    /\ globalConfigurations # NULL =>
           globalAliases = GetAllUnitAliases(globalConfigurations)

\* a registry published by an initialization that resumed after
\* resetConfigurations had cleared the promise it belongs to
C3_PublishedAfterReset ==
    /\ globalConfigurations # NULL
    /\ globalAliases # NULL
    /\ configurationPromise = NULL
    /\ loadCount >= 1

\* the calls that read a published registry
RegistryReaders ==
    {"convertUnits", "convertFromInput", "validateConversion", "findUnit",
     "getCategory", "findSimilarUnits"}

\* the step is a call of one of the registry readers
ReaderStep ==
    IF lastCall' = lastCall THEN FALSE ELSE lastCall'.op \in RegistryReaders

\* the step is resetConfigurations, or the resumption of an initialization
ResetOrInitializationStep ==
    \/ IF lastCall' = NULL THEN FALSE ELSE lastCall'.op = "resetConfigurations"
    \/ /\ microtasks # <<>>
       /\ Head(microtasks).kind = "iife"
       /\ microtasks' # microtasks
       /\ UNCHANGED callVars

\* C4: a call to convertUnits, convertFromInput, validateConversion,
\* findUnit, getCategory or findSimilarUnits leaves the category map and
\* the alias index as they were; they change only in a step of
\* resetConfigurations or of an initialization.
C4_ReadersLeaveRegistryUnchanged ==
    [][/\ ReaderStep => UNCHANGED published
       /\ published' # published => ResetOrInitializationStep]_vars

\* a successful convertUnits on a published registry
C4_ConvertedOnPublishedRegistry ==
    /\ globalConfigurations # NULL
    /\ globalAliases # NULL
    /\ Called({"convertUnits"})
    /\ lastResult.success

\* a convertUnits call with a finite value on a published registry
ConvertedOnPublished ==
    IF Called({"convertUnits"})
    THEN lastCall.ready /\ IsFiniteNum(lastCall.args[1])
    ELSE FALSE

\* the AliasIndex entry of a token
AliasEntryOf(token) == AliasLookup(globalAliases, Trim(ToLowerCase(token)))

\* what the converter's findUnit found is the AliasIndex entry
ResolvedAsIndexed(token) ==
    IF AliasEntryOf(token) = UNDEFINED
    THEN FindUnit(globalConfigurations, token) = NULL
    ELSE IF FindUnit(globalConfigurations, token) = NULL THEN FALSE
    ELSE /\ FindUnit(globalConfigurations, token).category = AliasEntryOf(token).category
         /\ FindUnit(globalConfigurations, token).unitKey = AliasEntryOf(token).unit

\* convertUnits returned an UNKNOWN_UNIT failure
ReportedUnknown ==
    IF lastResult.success THEN FALSE ELSE lastResult.error.type = "UNKNOWN_UNIT"

\* C5, as stated: convertUnits resolves each token to the AliasIndex entry
\* of the lowercased, trimmed token, and reports a token as unknown exactly
\* when the AliasIndex has no entry for it.
C5_ResolvesThroughAliasIndex ==
    ConvertedOnPublished =>
        /\ ResolvedAsIndexed(lastCall.args[2])
        /\ ResolvedAsIndexed(lastCall.args[3])
        /\ ReportedUnknown <=>
               \/ AliasEntryOf(lastCall.args[2]) = UNDEFINED
               \/ AliasEntryOf(lastCall.args[3]) = UNDEFINED

\* the definition of the unit the converter's findUnit found
DefinitionOf(unitInfo) ==
    globalConfigurations[unitInfo.category].units[unitInfo.unitKey]

\* toBase(value) of a unit: its own formula, or times its factor
ToBase(definition, value) ==
    IF Has(definition, "transform")
    THEN EvaluateTransform(definition.transform.toBase, value).value
    ELSE DecMul(value, definition.factor)

\* fromBase(base) of a unit: its own formula, or divided by its factor
FromBase(definition, base) ==
    IF Has(definition, "transform")
    THEN EvaluateTransform(definition.transform.fromBase, base).value
    ELSE DecDiv(base, definition.factor)

\* a unit of the successful conversion is defined by a transform
ConvertedTransformUnit ==
    IF ConvertedOnPublished /\ lastResult.success
    THEN \/ Has(DefinitionOf(FindUnit(globalConfigurations, lastCall.args[2])), "transform")
         \/ Has(DefinitionOf(FindUnit(globalConfigurations, lastCall.args[3])), "transform")
    ELSE FALSE

\* C6, as stated: a conversion from or to a unit defined by a transform
\* returns fromBase(toBase(value)), each evaluated by the unit's own
\* formula on the actual value.
C6_TransformUnitsUseTheirFormulas ==
    ConvertedTransformUnit =>
        lastResult.value =
            FromBase(DefinitionOf(FindUnit(globalConfigurations, lastCall.args[3])),
                     ToBase(DefinitionOf(FindUnit(globalConfigurations, lastCall.args[2])),
                            lastCall.args[1]))

\* both tokens have AliasIndex entries, of different categories
TokensOfDifferentCategories ==
    IF ConvertedOnPublished
    THEN /\ AliasEntryOf(lastCall.args[2]) # UNDEFINED
         /\ AliasEntryOf(lastCall.args[3]) # UNDEFINED
         /\ AliasEntryOf(lastCall.args[2]).category # AliasEntryOf(lastCall.args[3]).category
    ELSE FALSE

\* C7, as stated: convertUnits of two tokens that resolve to units of
\* different categories fails with the INVALID_FORMAT error that names
\* both categories.
C7_CategoryMismatchIsInvalidFormat ==
    TokensOfDifferentCategories =>
        lastResult = Failure(CreateCategoryError(lastCall.args[2], lastCall.args[3],
                                 AliasEntryOf(lastCall.args[2]).category,
                                 AliasEntryOf(lastCall.args[3]).category))

\* the formula maps 1 and 2 to themselves
IdentityAtSamples(expr) ==
    \A v \in {Int2Dec(1), Int2Dec(2)} :
        EvaluateTransform(expr, v) = Returned(v)

\* the definition of a base unit normalizes to identity: its factor is 1
\* or, with no factor, its transform maps a value to itself both ways
NormalizesToIdentity(baseDef) ==
    IF Has(baseDef, "factor") THEN baseDef.factor = Int2Dec(1)
    ELSE /\ Has(baseDef, "transform")
         /\ IdentityAtSamples(baseDef.transform.toBase)
         /\ IdentityAtSamples(baseDef.transform.fromBase)

\* C11, as stated: every category of a published registry was loaded
\* from a document whose base unit normalizes to identity (a document
\* whose base unit does not is rejected), and its base unit has the
\* effective factor exactly 1.
C11_BaseUnitsNormalized ==
    globalConfigurations # NULL =>
        \A c \in DOMAIN globalConfigurations :
            /\ NormalizesToIdentity(configDocs[c].units[configDocs[c].baseUnit])
            /\ FactorOf(UnitAt(globalConfigurations[c], globalConfigurations[c].baseUnit))
                   = Int2Dec(1)

\* the loaded unit has a numeric factor: the factor its document gives
\* it or, for a unit its document defines by a transform only, the value
\* of its toBase formula at x = 1
FactorAsDocumented(given, loaded) ==
    /\ Has(loaded, "factor")
    /\ IsFiniteNum(loaded.factor)
    /\ IF Has(given, "factor") THEN loaded.factor = given.factor
       ELSE /\ Has(given, "transform")
            /\ EvaluateTransform(given.transform.toBase, Int2Dec(1))
                   = Returned(loaded.factor)

\* C12, as stated: every unit of every category of a published registry
\* has a numeric factor; a unit given a numeric factor keeps it unchanged,
\* and a unit defined only by a transform has the value of its toBase
\* formula at x = 1.
C12_EveryUnitHasFactor ==
    globalConfigurations # NULL =>
        \A c \in DOMAIN globalConfigurations :
            \A key \in DOMAIN globalConfigurations[c].units :
                FactorAsDocumented(configDocs[c].units[key],
                                   globalConfigurations[c].units[key])

\* the declared aliases of the published categories, in category order,
\* then unit order, then the order of the unit's alias list
DeclaredAliases ==
    AliasEntries(globalConfigurations, CategoryKeys(globalConfigurations))

\* the declared aliases, each lowercased and trimmed
NormalizedAliases(declared) ==
    [i \in DOMAIN declared |-> Trim(ToLowerCase(declared[i].alias))]

\* the index maps every declared alias to the unit of its first
\* declaration, and has no other keys
FirstRegistrationWins(aliases, declared, normalized) ==
    /\ \A i \in DOMAIN declared :
           normalized[i] # <<>> =>
               LET first == CHOOSE j \in 1..i :
                                /\ normalized[j] = normalized[i]
                                /\ \A k \in 1..(j - 1) : normalized[k] # normalized[i]
               IN AliasLookup(aliases, normalized[i])
                      = [category |-> declared[first].category,
                         unit |-> declared[first].unit]
    /\ AliasKeySet(aliases) \subseteq Range(normalized)

\* getAliases() was called on a published registry
IndexReturned == IF Called({"getAliases"}) THEN lastCall.ready ELSE FALSE

\* C13: a published registry has an alias index, and the index that
\* getAliases() returns maps every normalized alias to the unit that
\* declared it first, in category order and then unit order; a later
\* declaration of the same normalized alias by another unit or category
\* does not replace it.
C13_FirstRegistrationWins ==
    /\ globalConfigurations # NULL => globalAliases # NULL
    /\ (IndexReturned /\ globalConfigurations # NULL) =>
           FirstRegistrationWins(lastResult, DeclaredAliases,
                                 NormalizedAliases(DeclaredAliases))

\* two declarations, by different units, of one normalized alias
DeclaredTwice(declared, normalized) ==
    \E i, j \in DOMAIN declared :
        /\ i < j
        /\ normalized[i] = normalized[j]
        /\ normalized[i] # <<>>
        /\ <<declared[i].category, declared[i].unit>>
               # <<declared[j].category, declared[j].unit>>

\* a registry is published whose documents declare an alias twice, in
\* two categories, and getAliases() has returned the index
C13_CollidingAliasesPublished ==
    /\ globalConfigurations # NULL
    /\ DeclaredTwice(DeclaredAliases, NormalizedAliases(DeclaredAliases))
    /\ IndexReturned
    /\ AliasLookup(lastResult, Units.m) = [category |-> "length", unit |-> Units.m]


\* the four kinds of ErrorDetails
ErrorKinds ==
    {"INVALID_FORMAT", "UNKNOWN_UNIT", "CALCULATION_ERROR", "CONFIGURATION_ERROR"}

\* the last call was one of the engine's three entry points
EngineCalled == Called({"convertUnits", "convertFromInput", "validateConversion"})

\* the call returned a value, and a failure it reports is an ErrorDetails
\* of one of the four kinds
ReturnedAsValue(result) ==
    /\ ~IsThrown(result)
    /\ Has(result, "error") => result.error.type \in ErrorKinds

\* C14, as stated: no call to convertUnits, convertFromInput or
\* validateConversion throws, whatever the arguments and whatever the
\* state of the registry; each returns a value, and a failure it reports
\* is an ErrorDetails of one of the four kinds.
C14_EngineNeverThrows ==
    EngineCalled => ReturnedAsValue(lastResult)


\* a convertUnits call on a published registry with a value that is NaN,
\* +Infinity or -Infinity
NonFiniteOnPublished ==
    IF Called({"convertUnits"})
    THEN lastCall.ready /\ lastCall.args[1] \in {NaN, Infinity(1), Infinity(-1)}
    ELSE FALSE

\* C15: with a published registry, convertUnits of a value that is NaN,
\* +Infinity or -Infinity returns the CALCULATION_ERROR failure for an
\* invalid input value, whatever the unit tokens are: the tokens are not
\* resolved and do not show in the result.
C15_NonFiniteValueRejectedFirst ==
    NonFiniteOnPublished => lastResult = InvalidInputValue

\* convertUnits of +Infinity with a target token no document declares has
\* returned the failure for the value
C15_InfinityWithUnknownTarget ==
    /\ NonFiniteOnPublished
    /\ lastCall.args = <<Infinity(1), Units.m, <<"z","z">>>>
    /\ FindUnit(globalConfigurations, lastCall.args[3]) = NULL
    /\ lastResult.error.type = "CALCULATION_ERROR"


\* the token has no entry in the AliasIndex: it names no unit of the
\* published registry
Unresolved(token) == AliasEntryOf(token) = UNDEFINED

\* a convertUnits call with a finite value and two strings on a published
\* registry
ConvertedTokensOnPublished ==
    IF ConvertedOnPublished
    THEN lastCall.args[2] # NotAString /\ lastCall.args[3] # NotAString
    ELSE FALSE

\* the UNKNOWN_UNIT failure that names the token as the source or as the
\* target unit
TaggedUnknown(result, token, isSource) ==
    IF result.success THEN FALSE
    ELSE /\ result.error.type = "UNKNOWN_UNIT"
         /\ result.error.unit = token
         /\ result.error.message =
                IF isSource THEN "Unknown source unit" ELSE "Unknown target unit"

\* C16, as stated: with a published registry and a finite value,
\* convertUnits fails with UNKNOWN_UNIT whenever a token does not resolve
\* to a unit of the registry; the error names the source token when the
\* source is unresolved, and the target token when only the target is.
C16_UnresolvedTokenIsUnknownUnit ==
    ConvertedTokensOnPublished =>
        /\ Unresolved(lastCall.args[2]) =>
               TaggedUnknown(lastResult, lastCall.args[2], TRUE)
        /\ (~Unresolved(lastCall.args[2]) /\ Unresolved(lastCall.args[3])) =>
               TaggedUnknown(lastResult, lastCall.args[3], FALSE)


\* the ErrorDetails of a result: the error of a ConversionResult or of a
\* validation, or the result itself
ReturnedError(result) == IF Has(result, "error") THEN result.error ELSE result

\* convertUnits, validateConversion or parseAndValidateInput has returned
\* an UNKNOWN_UNIT error
UnknownUnitReturned ==
    IF Called({"convertUnits", "validateConversion", "parseAndValidateInput"})
    THEN IF Has(ReturnedError(lastResult), "type")
         THEN ReturnedError(lastResult).type = "UNKNOWN_UNIT"
         ELSE FALSE
    ELSE FALSE

\* C17, as stated: every UNKNOWN_UNIT error returned by convertUnits,
\* validateConversion or parseAndValidateInput carries a list of
\* suggestions that is not empty.
C17_UnknownUnitCarriesSuggestions ==
    UnknownUnitReturned => ReturnedError(lastResult).suggestions # <<>>


\* none of the three CONVERSION_PATTERNS matches the trimmed text
MatchesNoPattern(input) == \A n \in 1..3 : PatternMatch(Trim(input), n) = NULL

\* parseConversionInput was called on a text that no pattern matches
UnmatchedLineParsed ==
    IF Called({"parseConversionInput"}) THEN MatchesNoPattern(lastCall.args[1])
    ELSE FALSE

\* C18, as stated: for every input line that none of the three patterns
\* matches, parseConversionInput returns an INVALID_FORMAT error with a
\* list of example suggestions that is not empty.
C18_UnmatchedLineGetsExamples ==
    UnmatchedLineParsed =>
        /\ Has(lastResult, "type")
        /\ lastResult.type = "INVALID_FORMAT"
        /\ Has(lastResult, "suggestions")
        /\ lastResult.suggestions # <<>>


\* the positions of the line breaks of a text, and the number of its lines
LineBreaks(text) == {k \in DOMAIN text : text[k] = "\n"}
LineCount(text) == Cardinality(LineBreaks(text)) + 1

\* the position of the i-th line break, 0 for i = 0 and one past the end
\* of the text if it has fewer
NthBreak(text, i) ==
    IF i = 0 THEN 0
    ELSE IF i > Cardinality(LineBreaks(text)) THEN Len(text) + 1
    ELSE CHOOSE k \in LineBreaks(text) :
             Cardinality({b \in LineBreaks(text) : b <= k}) = i

\* the i-th line of a text, trimmed
NthLine(text, i) ==
    Trim(SubSeq(text, NthBreak(text, i - 1) + 1, NthBreak(text, i) - 1))

\* the result of parseMultilineInput for each line is the outcome of that
\* line
ParsedLineByLine(text, results) ==
    /\ Len(results) = LineCount(text)
    /\ \A i \in 1..LineCount(text) :
           results[i] = IF NthLine(text, i) = <<>> THEN EmptyLine
                        ELSE ParseAndValidateInput(globalConfigurations, NthLine(text, i))

\* the result processConversions sets for each line carries the index and
\* the text of that line, and the outcome of its conversion
ProcessedLineByLine(text, results) ==
    /\ Len(results) = LineCount(text)
    /\ \A i \in 1..LineCount(text) :
           /\ results[i].id.index = i - 1
           /\ results[i].input = NthLine(text, i)
           /\ results[i].id.kind = "empty" <=> NthLine(text, i) = <<>>
           /\ NthLine(text, i) # <<>> =>
                  results[i].success =
                      ConvertFromInput(globalConfigurations, globalAliases,
                                       NthLine(text, i)).success

\* the registry is as it was when the last call read it
RegistryAsRead ==
    lastCall.ready = IsConfigurationReady(globalConfigurations, globalAliases)

\* processConversions ran its loop: the text is not blank and the
\* configuration was loaded
LoopRan ==
    IF Called({"processConversions"})
    THEN RegistryAsRead /\ lastCall.args[1] /\ Trim(lastCall.args[2]) # <<>>
    ELSE FALSE

\* C19: for a text of n lines parseMultilineInput returns n results, the
\* i-th being the outcome for the i-th line and an empty line having its
\* own 'Empty line' result; the loop of processConversions, which runs for
\* a text that is not blank once the configuration is loaded, sets n
\* results, the i-th carrying the index and the outcome of the i-th line.
C19_OneResultPerLine ==
    /\ (Called({"parseMultilineInput"}) /\ RegistryAsRead) =>
           ParsedLineByLine(lastCall.args[1], lastResult)
    /\ LoopRan => ProcessedLineByLine(lastCall.args[2], lastResult.results)

\* parseMultilineInput has handled a text of three lines whose second line
\* is empty: three results, the second one the empty-line result and the
\* third the outcome of the third line
C19_EmptyLineBetweenConversions ==
    /\ Called({"parseMultilineInput"})
    /\ lastCall.ready
    /\ LineCount(lastCall.args[1]) = 3
    /\ NthLine(lastCall.args[1], 2) = <<>>
    /\ Len(lastResult) = 3
    /\ Has(lastResult[1], "value")
    /\ lastResult[2] = EmptyLine
    /\ lastResult[3].type = "UNKNOWN_UNIT"


\* the token is the key of a unit of the published registry
UnitOfRegistry(token) ==
    \E c \in DOMAIN globalConfigurations : token \in DOMAIN globalConfigurations[c].units

\* convertUnits(v, a, a) of a finite value on a published registry, a being
\* the key of one of its units
ConvertedToSameUnit ==
    IF ConvertedTokensOnPublished
    THEN lastCall.args[2] = lastCall.args[3] /\ UnitOfRegistry(lastCall.args[2])
    ELSE FALSE

\* C20, as stated: for every unit a of the published registry and every
\* finite value v, convertUnits(v, a, a) succeeds and returns exactly v.
C20_SameUnitReturnsValue ==
    ConvertedToSameUnit =>
        IF lastResult.success THEN lastResult.value = lastCall.args[1] ELSE FALSE


\* no initializeConfigurations call has been made since the last
\* resetConfigurations (or since the module was loaded): only a reset
\* clears configurationPromise, and every call made with it cleared sets it
NoInitializationSinceReset == configurationPromise = NULL

\* C25, as stated: once resetConfigurations has returned, the registry stays
\* unpublished until an initializeConfigurations call made after the reset
\* has completed, also when an earlier call was still in flight at the reset.
C25_UnpublishedUntilInitializedAgain ==
    NoInitializationSinceReset => ~IsConfigurationReady(globalConfigurations, globalAliases)


\* the step starts loadAllConfigurations
LoadStarted == loadCount' # loadCount

\* the step is the return of an initializeConfigurations call whose promise
\* is the one memoised now: no resetConfigurations came after the call
ReturnedWithinEpoch ==
    /\ microtasks # <<>>
    /\ Head(microtasks).kind = "return"
    /\ microtasks' = Tail(microtasks)
    /\ Called({"initializeConfigurations returned"})'
    /\ configurationPromise # NULL
    /\ Head(microtasks).promise = configurationPromise.id

\* C26: between two resetConfigurations calls loadAllConfigurations runs at
\* most once, however many initializeConfigurations calls are made: a load
\* starts only while no promise is memoised, the memoised promise is that
\* of the last load started, and only resetConfigurations forgets it.  A
\* call returns only after that load has run to its end, and returns that
\* load's outcome.
C26_OneLoadBetweenResets ==
    [][/\ LoadStarted => configurationPromise = NULL
       /\ configurationPromise' # NULL => configurationPromise'.id = loadCount'
       /\ (configurationPromise # NULL /\ configurationPromise' # configurationPromise) =>
              (configurationPromise' = NULL /\ Called({"resetConfigurations"})')
       /\ ReturnedWithinEpoch =>
              /\ Settled(Head(microtasks).promise)
              /\ lastResult' = (configDocs \notin DocsThatFail)]_vars

\* the second of two initializeConfigurations calls has returned true, one
\* load having been started and no reset having been made since
C26_SecondCallSharesLoad ==
    /\ Called({"initializeConfigurations returned"})
    /\ lastCall.args = <<2>>
    /\ lastResult = TRUE
    /\ loadCount = 1
    /\ configurationPromise = Promise(1)


\* convertUnits has returned a successful ConversionResult
ConvertedSuccessfully ==
    IF Called({"convertUnits"}) THEN lastResult.success ELSE FALSE

\* C27, as stated: every successful ConversionResult of convertUnits carries
\* a finite number as its value, whatever the factors stored for the two
\* units.
C27_SuccessfulValueIsFinite ==
    ConvertedSuccessfully => IsFiniteNum(lastResult.value)


\* what convertUnits returns for a finite value and the two tokens of the
\* validateConversion call observed, in the registry state that call read
ConversionOfValidated ==
    ConvertUnits(globalConfigurations, globalAliases, Int2Dec(2),
                 lastCall.args[1], lastCall.args[2])

\* the verdict of validateConversion and the result of convertUnits agree:
\* valid exactly when the conversion succeeds, and the same kind of error
\* when it does not
SameVerdict(validation, conversion) ==
    IF IsThrown(validation) THEN FALSE
    ELSE /\ validation.isValid = conversion.success
         /\ ~validation.isValid => validation.error.type = conversion.error.type

\* C29, as stated: for every pair of tokens and every registry state,
\* validateConversion(s, t) reports valid exactly when convertUnits(v, s, t)
\* succeeds for a finite v, and when it reports invalid its error has the
\* kind of the error of convertUnits.
C29_ValidationAgreesWithConversion ==
    (Called({"validateConversion"}) /\ RegistryAsRead) =>
        SameVerdict(lastResult, ConversionOfValidated)


\* the two tokens name, once trimmed and lowercased, units of one category
\* of the published registry
UnitsOfOneCategory(source, target) ==
    \E c \in DOMAIN globalConfigurations :
        /\ Trim(ToLowerCase(source)) \in DOMAIN globalConfigurations[c].units
        /\ Trim(ToLowerCase(target)) \in DOMAIN globalConfigurations[c].units

\* convertUnits(v, a, b) of a finite value on a published registry, a and b
\* being units of one category
ConvertedWithinCategory ==
    IF ConvertedTokensOnPublished
    THEN UnitsOfOneCategory(lastCall.args[2], lastCall.args[3])
    ELSE FALSE

\* the conversion of the result back from the target to the source
ConvertedBack ==
    ConvertUnits(globalConfigurations, globalAliases, lastResult.value,
                 lastCall.args[3], lastCall.args[2])

\* C21, as stated: for two units a and b of one category and a finite v,
\* converting v from a to b and the result back from b to a returns v.  The
\* arithmetic of the model is exact, so the tolerance of the claim is zero.
C21_RoundTripReturnsValue ==
    ConvertedWithinCategory =>
        IF lastResult.success
        THEN IF ConvertedBack.success
             THEN ConvertedBack.value = lastCall.args[1]
             ELSE FALSE
        ELSE FALSE


(***************************************************************************)
(* utils/storage: the conversion history kept in localStorage.  The texts  *)
(* of an entry are known by their size only: sizes are counted in KiB of   *)
(* the JSON text (calculateStorageSize), an entry of short texts counting  *)
(* 1.  The id of an entry is its number in the order of generation:        *)
(* generateEntryId draws it from the time and a random number, and two     *)
(* ids are taken to differ.  localStorage itself does not fail.            *)
(***************************************************************************)
\* MAX_HISTORY_ENTRIES, 100 in the source, scaled to the histories the
\* model builds
MAX_HISTORY_ENTRIES == 3
\* 4 * 1024 * 1024 bytes
MAX_STORAGE_SIZE == 4 * 1024
\* the saveConversion calls made, and the values of Date.now()
MaxSaves == 5
MaxDateNow == 2

\* the input texts handed to saveConversion, by their size after trim:
\* white space only, a short text, a text of 1500 KiB
SavedTextSizes == {0, 1, 1500}
\* the ids handed to removeConversion: generated ones, and one that never is
RemovedIds == 0 .. MaxSaves

\* the sum of the sizes of the entries
RECURSIVE SizeOfEntries(_)
SizeOfEntries(entries) ==
    IF entries = <<>> THEN 0
    ELSE Head(entries).size + SizeOfEntries(Tail(entries))

\* calculateStorageSize(container); the fields around the entries are
\* within the rounding
CalculateStorageSize(container) == SizeOfEntries(container.entries)

\* createDefaultContainer()
CreateDefaultContainer == [entries |-> <<>>, totalSize |-> 0]

\* loadFromStorage() of what localStorage holds: the stored container, or
\* the default one
LoadStored(stored) ==
    IF stored = NULL
    THEN [success |-> TRUE, data |-> CreateDefaultContainer]
    ELSE [success |-> TRUE, data |-> stored]

\* loadFromStorage()
LoadFromStorage == LoadStored(storedHistory)

\* validateHistoryEntry(entry).valid
ValidateHistoryEntry(entry) ==
    /\ entry.size > 0
    /\ IsFiniteNum(entry.value)
    /\ IsFiniteNum(entry.result)

\* [...entries].sort((a, b) => a.timestamp - b.timestamp): the entry is put
\* into the sorted entries behind those that are not younger
RECURSIVE InsertByTimestamp(_, _)
InsertByTimestamp(sorted, entry) ==
    IF sorted = <<>> THEN <<entry>>
    ELSE IF Head(sorted).timestamp > entry.timestamp THEN <<entry>> \o sorted
    ELSE <<Head(sorted)>> \o InsertByTimestamp(Tail(sorted), entry)

RECURSIVE SortByTimestamp(_)
SortByTimestamp(entries) ==
    IF entries = <<>> THEN <<>>
    ELSE InsertByTimestamp(SortByTimestamp(SubSeq(entries, 1, Len(entries) - 1)),
                           entries[Len(entries)])

\* the loop of cleanupOldEntries from index i down to 1; sizes are compared
\* in tenths, the target being a fraction of the limit
RECURSIVE KeepWithinSize(_, _, _, _, _)
KeepWithinSize(sortedEntries, i, targetTenths, keptEntries, currentSize) ==
    IF i = 0 THEN [entries |-> keptEntries, totalSize |-> currentSize]
    ELSE IF /\ 10 * (currentSize + sortedEntries[i].size) <= targetTenths
            /\ Len(keptEntries) < MAX_HISTORY_ENTRIES
    THEN KeepWithinSize(sortedEntries, i - 1, targetTenths,
                        <<sortedEntries[i]>> \o keptEntries,
                        currentSize + sortedEntries[i].size)
    ELSE KeepWithinSize(sortedEntries, i - 1, targetTenths, keptEntries, currentSize)

\* cleanupOldEntries(container, targetSize).data
CleanupOldEntries(container, targetTenths) ==
    KeepWithinSize(SortByTimestamp(container.entries), Len(container.entries),
                   targetTenths, <<>>, 0)

\* what saveToStorage(container) puts into localStorage: the container, or
\* the one cleaned to 80% of the limit when its size exceeds the limit
RECURSIVE ContainerSaved(_)
ContainerSaved(container) ==
    IF CalculateStorageSize(container) > MAX_STORAGE_SIZE
    THEN ContainerSaved(CleanupOldEntries(container, MAX_STORAGE_SIZE * 8))
    ELSE [container EXCEPT !.totalSize = CalculateStorageSize(container)]

\* saveToStorage(container): its result, and the item stored
SaveToStorage(container) ==
    [result |-> [success |-> TRUE, data |-> ContainerSaved(container)],
     stored |-> ContainerSaved(container)]

\* array.slice(0, n)
SliceTo(array, n) == SubSeq(array, 1, Min2(n, Len(array)))

\* the entries after unshift(entry) and the cut to MAX_HISTORY_ENTRIES
WithNewEntry(entries, entry) ==
    IF Len(entries) + 1 > MAX_HISTORY_ENTRIES
    THEN SliceTo(<<entry>> \o entries, MAX_HISTORY_ENTRIES)
    ELSE <<entry>> \o entries

\* saveConversion(input, ..., value, result) on what localStorage holds:
\* its result and the item stored afterwards
SaveConversionTo(stored, id, timestamp, inputSize, value) ==
    LET entry == [id |-> id, timestamp |-> timestamp, size |-> inputSize,
                  value |-> value, result |-> value]
    IN IF ~ValidateHistoryEntry(entry)
       THEN [result |-> [success |-> FALSE, error |-> "Invalid history entry"],
             stored |-> stored]
       ELSE SaveToStorage([LoadStored(stored).data EXCEPT
                               !.entries = WithNewEntry(@, entry)])

\* saveConversion(input, ..., value, result)
SaveConversion(id, timestamp, inputSize, value) ==
    SaveConversionTo(storedHistory, id, timestamp, inputSize, value)

\* a removeConversion whose filter keeps the entry of the id
RemoveConversionKeepingId(id) ==
    LET container == LoadFromStorage.data
        entries == SelectSeq(container.entries, LAMBDA entry : entry.id = id)
    IN IF Len(entries) = Len(container.entries)
       THEN [result |-> [success |-> FALSE, error |-> "not found"],
             stored |-> storedHistory]
       ELSE SaveToStorage([container EXCEPT !.entries = entries])

\* removeConversion(id): its result and the item stored afterwards
RemoveConversion(id) ==
    LET container == LoadFromStorage.data
        entries == SelectSeq(container.entries, LAMBDA entry : entry.id # id)
    IN IF Len(entries) = Len(container.entries)
       THEN [result |-> [success |-> FALSE, error |-> "not found"],
             stored |-> storedHistory]
       ELSE SaveToStorage([container EXCEPT !.entries = entries])

\* what a call of the storage module leaves alone
StorageOnly == UNCHANGED <<registryVars, evalVars, uiVars, widgetVars>>

\* saveConversion(...) with a text of the given size and the given value
SaveConversionCall(inputSize, value) ==
    /\ entryIds < MaxSaves
    /\ entryIds' = entryIds + 1
    /\ storedHistory' = SaveConversion(entryIds + 1, dateNow, inputSize, value).stored
    /\ Observe("saveConversion", <<entryIds + 1, inputSize, value>>,
               SaveConversion(entryIds + 1, dateNow, inputSize, value).result)
    /\ UNCHANGED dateNow
    /\ StorageOnly

\* removeConversion(id)
RemoveConversionCall(id) ==
    /\ storedHistory' = RemoveConversion(id).stored
    /\ Observe("removeConversion", <<id>>, RemoveConversion(id).result)
    /\ UNCHANGED <<dateNow, entryIds>>
    /\ StorageOnly

\* clearAllHistory()
ClearAllHistoryCall ==
    /\ storedHistory # NULL
    /\ storedHistory' = NULL
    /\ Observe("clearAllHistory", <<>>,
               [success |-> TRUE, data |-> CreateDefaultContainer])
    /\ UNCHANGED <<dateNow, entryIds>>
    /\ StorageOnly

\* a millisecond passes
ClockTick ==
    /\ dateNow < MaxDateNow
    /\ dateNow' = dateNow + 1
    /\ UNCHANGED <<storedHistory, entryIds, callVars>>
    /\ StorageOnly

InitStorage ==
    /\ RegistryIdle
    /\ EvalIdle
    /\ AppIdle

NextStorage ==
    \/ \E inputSize \in SavedTextSizes, value \in {Int2Dec(2), NaN} :
           SaveConversionCall(inputSize, value)
    \/ \E id \in RemovedIds : RemoveConversionCall(id)
    \/ ClearAllHistoryCall
    \/ ClockTick

SpecStorage == InitStorage /\ [][NextStorage]_vars

\* the entries stored, newest first as the module keeps them
StoredEntries(stored) == IF stored = NULL THEN <<>> ELSE stored.entries

\* the ids of the entries, in their order
EntryIdsOf(entries) == [i \in DOMAIN entries |-> entries[i].id]

\* the step is a saveConversion call that returned success
SavedSuccessfully ==
    /\ entryIds' = entryIds + 1
    /\ lastResult'.success

\* C23, as stated: after every successful saveConversion the stored history
\* is the new entry followed by the entries stored before, newest first,
\* cut to the MAX_HISTORY_ENTRIES most recent ones: the oldest entries are
\* the ones dropped.
C23_HistoryIsMostRecentNewestFirst ==
    [][SavedSuccessfully =>
          EntryIdsOf(StoredEntries(storedHistory')) =
              SliceTo(<<entryIds'>> \o EntryIdsOf(StoredEntries(storedHistory)),
                      MAX_HISTORY_ENTRIES)]_vars

\* the step is a removeConversion call
RemoveStep == Called({"removeConversion"})' /\ UNCHANGED <<entryIds, dateNow>>

\* the entries without the one at position i
WithoutPosition(entries, i) ==
    SubSeq(entries, 1, i - 1) \o SubSeq(entries, i + 1, Len(entries))

\* C24: removeConversion(id) with an id no stored entry has returns a
\* failure and leaves the stored history as it is; with the id of a stored
\* entry it returns success and the history is the one before without that
\* entry, the other entries and their order being unchanged.
C24_RemoveTakesExactlyOne ==
    [][RemoveStep =>
          LET id == lastCall'.args[1]
              before == StoredEntries(storedHistory)
              after == StoredEntries(storedHistory')
          IN IF \A i \in DOMAIN before : before[i].id # id
             THEN ~lastResult'.success /\ storedHistory' = storedHistory
             ELSE /\ lastResult'.success
                  /\ \E i \in DOMAIN before :
                        before[i].id = id /\ after = WithoutPosition(before, i)]_vars

\* the second of three stored entries has been removed
C24_MiddleEntryRemoved ==
    /\ Called({"removeConversion"})
    /\ lastCall.args = <<2>>
    /\ lastResult.success
    /\ EntryIdsOf(StoredEntries(storedHistory)) = <<3, 1>>


(***************************************************************************)
(* App.  The effect of the first render calls initializeConfigurations;    *)
(* handleInputChange hands the text to the debounced processConversions    *)
(* of the current render.  processConversions and the debounced function   *)
(* made of it are made anew when isConfigurationLoaded changes, and each   *)
(* debounced function keeps its own timer and its own last argument.  A    *)
(* processConversions call runs to its end before another event is taken:  *)
(* its awaits are microtasks.  isProcessing is false between two events.   *)
(***************************************************************************)
\* the handleInputChange calls made
MaxEdits == 3

\* the texts the user enters: a blank one, two conversions, and three lines
\* with an empty line and an unknown unit
AppTexts ==
    {<<" ">>,
     <<"5"," ","m"," ","t","o"," ","f","t">>,
     <<"5"," ","f","t"," ","a","s"," ","m">>,
     <<"5"," ","m"," ","t","o"," ","f","t","\n","\n","5"," ","z","z"," ","t","o"," ","m">>}

\* the documents App is started with: documents that load, and documents
\* that do not
AppDocSets ==
    {StandardDocs,
     [StandardDocs EXCEPT !["length"] = Defective(LengthDoc, "no units")]}

\* lodash.debounce(processConversions, 300), called with a value: the timer
\* of that debounced function starts again and the value is its argument
Debounce(pending, loaded, value) == [pending EXCEPT ![loaded] = [lastArgs |-> value]]

\* converterResult.value || 0
ValueOrZero(value) ==
    IF value = NaN THEN Int2Dec(0)
    ELSE IF IsFiniteNum(value) /\ IsZero(value) THEN Int2Dec(0)
    ELSE value

\* the saveConversion calls of the loop of processConversions from line i
\* on, one for each successful conversion: what localStorage holds
\* afterwards and the number of ids generated
RECURSIVE SaveConverted(_, _, _, _, _)
SaveConverted(stored, ids, timestamp, lineResults, i) ==
    IF i > Len(lineResults) THEN [stored |-> stored, ids |-> ids]
    ELSE IF lineResults[i].id.kind = "result"
    THEN SaveConverted(SaveConversionTo(stored, ids + 1, timestamp, 1,
                                        ValueOrZero(lineResults[i].output.value)).stored,
                       ids + 1, timestamp, lineResults, i + 1)
    ELSE SaveConverted(stored, ids, timestamp, lineResults, i + 1)

\* processConversions(value) returns before it calls setResults
ReturnsNotLoaded(loaded, value) == Trim(value) # <<>> /\ ~loaded

\* the state after processConversions(value) has run to its end with the
\* given outcome; the error displayed is kept as a record of its message
Processed(loaded, value, outcome) ==
    /\ IF ReturnsNotLoaded(loaded, value)
       THEN /\ processingError' = [message |-> outcome.processingError]
            /\ UNCHANGED <<appResults, storedHistory, entryIds>>
       ELSE /\ processingError' = NULL
            /\ appResults' = outcome.results
            /\ storedHistory' = SaveConverted(storedHistory, entryIds, dateNow,
                                              outcome.results, 1).stored
            /\ entryIds' = SaveConverted(storedHistory, entryIds, dateNow,
                                         outcome.results, 1).ids

\* no chain of microtasks is under way: the load may take its time, what
\* follows it up to the end of initializeApp does not
EventMayBeTaken ==
    /\ initCalls >= 1
    /\ \A i \in DOMAIN microtasks : microtasks[i].kind = "iife"
    /\ ~(initializeApp = "pending" /\ Called({"initializeConfigurations returned"}))

\* what a step of App leaves alone
AppOnly == UNCHANGED <<registryVars, callVars, evalVars, widgetVars>>

\* the effect of the first render: initializeApp() runs up to its await
AppMount ==
    /\ initCalls = 0
    /\ InitializeConfigurationsCall

\* initializeApp resumes after `await initializeConfigurations()`
InitializeAppResumes ==
    /\ initializeApp = "pending"
    /\ Called({"initializeConfigurations returned"})
    /\ initializeApp' = "done"
    /\ IF lastResult
       THEN configurationLoaded' = TRUE /\ UNCHANGED configurationError
       ELSE /\ configurationError' = "Failed to load unit configurations"
            /\ UNCHANGED configurationLoaded
    /\ UNCHANGED <<storageVars, appInputValue, appResults, processingError,
                   debounced, edits>>
    /\ AppOnly

\* handleInputChange(value)
HandleInputChange(value) ==
    /\ EventMayBeTaken
    /\ edits < MaxEdits
    /\ edits' = edits + 1
    /\ appInputValue' = value
    /\ debounced' = Debounce(debounced, configurationLoaded, value)
    /\ UNCHANGED <<storageVars, appResults, processingError, configurationLoaded,
                   configurationError, initializeApp>>
    /\ AppOnly

\* the timer of a debounced function expires: the processConversions it
\* was made of runs with the last argument.  The timer of the function of
\* an earlier render was started earlier and expires first.
TimerExpired(loaded) ==
    /\ EventMayBeTaken
    /\ debounced[loaded] # NULL
    /\ loaded => debounced[FALSE] = NULL
    /\ debounced' = [debounced EXCEPT ![loaded] = NULL]
    /\ Processed(loaded, debounced[loaded].lastArgs,
                 ProcessConversions(globalConfigurations, globalAliases, loaded,
                                    debounced[loaded].lastArgs))
    /\ UNCHANGED <<dateNow, appInputValue, configurationLoaded, configurationError,
                   initializeApp, edits>>
    /\ AppOnly

InitApp ==
    /\ configDocs \in AppDocSets
    /\ globalConfigurations = NULL
    /\ globalAliases = NULL
    /\ configurationPromise = NULL
    /\ microtasks = <<>>
    /\ awaiting = <<>>
    /\ loadCount = 0
    /\ initCalls = 0
    /\ lastCall = NULL
    /\ lastResult = NULL
    /\ EvalIdle
    /\ AppIdle

NextApp ==
    \/ AppMount
    \/ ResumeInitialization
    \/ InitializeConfigurationsReturn
    \/ InitializeAppResumes
    \/ \E value \in AppTexts : HandleInputChange(value)
    \/ \E loaded \in BOOLEAN : TimerExpired(loaded)

SpecApp == InitApp /\ [][NextApp]_vars

\* App displays the results of the conversions of the text, and no error
DisplayedFor(value) ==
    /\ processingError = NULL
    /\ appResults = ProcessConversions(globalConfigurations, globalAliases, TRUE,
                                       value).results

\* the step runs processConversions with the argument of a debounced
\* function
ProcessedValue(loaded) ==
    /\ debounced[loaded] # NULL
    /\ debounced'[loaded] = NULL

\* the configuration is loaded, an input has been made, no timer is
\* pending and no microtask is left
InputSettled ==
    /\ configurationLoaded
    /\ edits >= 1
    /\ EventMayBeTaken
    /\ \A loaded \in BOOLEAN : debounced[loaded] = NULL

\* C22, as stated: of input changes that follow each other rapidly only the
\* last value is processed -- whenever processConversions runs, it runs
\* with the text the input holds -- and once the input has settled the
\* results displayed are those of the latest input.
C22_OnlyLatestInputProcessed ==
    /\ [][\A loaded \in BOOLEAN :
             ProcessedValue(loaded) => debounced[loaded].lastArgs = appInputValue]_vars
    /\ [](InputSettled => DisplayedFor(appInputValue))

\* the error processConversions sets while the configuration is not loaded
NotLoadedYet == [message |-> "Configuration not loaded yet. Please wait..."]

\* C28, as stated: when the user enters a text that is not blank before the
\* configuration has loaded and edits no further, then, the loading being
\* successful, the results of that text are eventually displayed: the
\* error 'Configuration not loaded yet' does not stay for ever.  Once the
\* input has settled nothing happens any more unless the user edits, so
\* what is displayed then is what stays: it is not that error.
C28_ResultsEventuallyDisplayed ==
    (InputSettled /\ Trim(appInputValue) # <<>>) => processingError # NotLoadedYet

(***************************************************************************)
(* components/ConversionInput: the textarea with its list of suggestions.  *)
(* The position of the list (suggestStyle) is left out.  A unit's symbol   *)
(* is its key: the documents of the model carry no other symbol.           *)
(***************************************************************************)
MaxHideTimers == 1

\* the order of the UTF-16 code units of the characters of a symbol
CharOrder == DigitChars \o UpperLetters \o LowerLetters
CharCode(c) == CHOOSE i \in DOMAIN CharOrder : CharOrder[i] = c

\* a < b as Array.prototype.sort() compares strings
RECURSIVE StringBefore(_, _)
StringBefore(a, b) ==
    IF b = <<>> THEN FALSE
    ELSE IF a = <<>> THEN TRUE
    ELSE IF Head(a) # Head(b) THEN CharCode(Head(a)) < CharCode(Head(b))
    ELSE StringBefore(Tail(a), Tail(b))

\* Array.from(new Set(list)): the first occurrence of each string
RECURSIVE Unique(_, _)
Unique(seen, list) ==
    IF list = <<>> THEN seen
    ELSE Unique(IF \E i \in DOMAIN seen : seen[i] = Head(list)
                THEN seen ELSE Append(seen, Head(list)),
                Tail(list))

RECURSIVE InsertSymbol(_, _)
InsertSymbol(sorted, symbol) ==
    IF sorted = <<>> THEN <<symbol>>
    ELSE IF StringBefore(symbol, Head(sorted)) THEN <<symbol>> \o sorted
    ELSE <<Head(sorted)>> \o InsertSymbol(Tail(sorted), symbol)

RECURSIVE SortSymbols(_, _)
SortSymbols(list, sorted) ==
    IF list = <<>> THEN sorted
    ELSE SortSymbols(Tail(list), InsertSymbol(sorted, Head(list)))

\* getSymbolsForCategory(categoryName, categories): the symbols of the
\* units of the category, without duplicates, sorted
GetSymbolsForCategory(categoryName, categories) ==
    IF categoryName \notin DOMAIN categories THEN <<>>
    ELSE SortSymbols(Unique(<<>>, UnitKeys(categories[categoryName])), <<>>)

\* the symbols of the categories from the i-th key on
RECURSIVE SymbolsFrom(_, _, _)
SymbolsFrom(categories, keys, i) ==
    IF i > Len(keys) THEN <<>>
    ELSE UnitKeys(categories[keys[i]]) \o SymbolsFrom(categories, keys, i + 1)

\* getAllUnitSymbols(categories): the symbols of all units, without
\* duplicates, sorted
GetAllUnitSymbols(categories) ==
    SortSymbols(Unique(<<>>, SymbolsFrom(categories, CategoryKeys(categories), 1)), <<>>)

\* the category of what findUnitByAlias found, if anything
CategoryOf(info) ==
    IF info = NULL THEN [found |-> FALSE, category |-> ""]
    ELSE [found |-> TRUE, category |-> info.category]

\* getUnitCategory(unit, categories): the category of the unit with that
\* symbol or alias, or none
GetUnitCategory(unit, categories) == CategoryOf(FindUnitByAlias(unit, categories))

\* findUnitCategory(unitSymbolOrAlias) of config/index
FindUnitCategory(configurations, unitSymbolOrAlias) ==
    IF configurations = NULL THEN [found |-> FALSE, category |-> ""]
    ELSE GetUnitCategory(unitSymbolOrAlias, configurations)

\* getCategorySymbols(categoryName) of config/index
GetCategorySymbols(configurations, categoryName) ==
    IF configurations = NULL THEN <<>>
    ELSE GetSymbolsForCategory(categoryName, configurations)

\* s.startsWith(token) and s.includes(token), for a token that is not empty
StartsWith(s, token) == Len(token) <= Len(s) /\ SubSeq(s, 1, Len(token)) = token
Includes(s, token) ==
    \E i \in 1 .. Len(s) - Len(token) + 1 : SubSeq(s, i, i + Len(token) - 1) = token

\* the symbols that start with the token, then those that contain it
\* elsewhere, without duplicates, the first ten
FilterSymbols(symbolList, token) ==
    LET starts == SelectSeq(symbolList, LAMBDA sym : StartsWith(ToLowerCase(sym), token))
        contains == SelectSeq(symbolList,
                              LAMBDA sym : /\ ~StartsWith(ToLowerCase(sym), token)
                                           /\ Includes(ToLowerCase(sym), token))
    IN SliceTo(Unique(<<>>, starts \o contains), 10)

\* where the last line of s begins: after the last line break before i
RECURSIVE LastLineStart(_, _)
LastLineStart(s, i) ==
    IF i = 0 \/ s[i] = "\n" THEN i + 1 ELSE LastLineStart(s, i - 1)

\* the line the caret is in, up to the caret
CurrentLine(val, pos) ==
    LET before == SubSeq(val, 1, pos)
    IN SubSeq(before, LastLineStart(before, Len(before)), Len(before))

\* where the characters that are not spaces at the end of the line begin
RECURSIVE TokenStart(_, _)
TokenStart(line, i) ==
    IF i = 0 \/ IsSpace(line[i]) THEN i + 1 ELSE TokenStart(line, i - 1)

\* the group of line.match(/(\S+)$/), empty when there is no match
LastToken(line) == SubSeq(line, TokenStart(line, Len(line)), Len(line))

\* the character class of the source unit in the pattern of
\* updateSuggestionsForValue; of its characters outside ASCII none occurs
\* in the texts of the model
IsSourceUnitChar(c) == IsUnitChar(c) \/ c = "/"

NoConversionMatch == [matched |-> FALSE, sourceUnit |-> <<>>, partialTargetUnit |-> <<>>]

\* where the number that begins at i ends, given the end of the number at
\* the head of the text from i on; 0 when no number begins at i
NumberEndFrom(i, decimalEnd) == IF decimalEnd = 0 THEN 0 ELSE i + decimalEnd - 1

\* the end of \d+(?:\.\d+)?(?:[eE][+-]?\d+)? matched at i, or 0
NumberEndAt(line, i) == NumberEndFrom(i, DecimalEnd(Suffix(line, i)))

\* \s+ and the source unit [p, r] follow a number that ends before numberEnd
SourceMatches(line, numberEnd, p, r) ==
    /\ numberEnd # 0
    /\ p > numberEnd
    /\ p <= r
    /\ IsLetter(line[p])
    /\ \A q \in p .. r : IsSourceUnitChar(line[q])

SourceAfter(line, numberEnd, r) ==
    SourceMatches(line, numberEnd, GobbleSpaces(line, numberEnd), r)

\* the groups of the match whose number begins at i
ConversionMatchAt(line, t, r, i) ==
    [matched |-> TRUE,
     sourceUnit |-> SubSeq(line, GobbleSpaces(line, NumberEndAt(line, i)), r),
     partialTargetUnit |-> SubSeq(line, t, Len(line))]

\* the match with the leftmost number among the positions where one begins
LeftmostMatch(line, t, r, starts) ==
    IF starts = {} THEN NoConversionMatch
    ELSE ConversionMatchAt(line, t, r, CHOOSE i \in starts : \A j \in starts : i <= j)

\* the match whose source unit ends at r
MatchWithSourceEnd(line, t, r) ==
    LeftmostMatch(line, t, r, {i \in 1 .. r : SourceAfter(line, NumberEndAt(line, i), r)})

\* the match whose keyword ends at w and whose last group begins at t
MatchWithKeywordEnd(line, t, w) ==
    IF /\ w < t - 1
       /\ w >= 3
       /\ ToLowerCase(SubSeq(line, w - 1, w)) \in {<<"t","o">>, <<"a","s">>}
       /\ IsSpace(line[w - 2])
    THEN MatchWithSourceEnd(line, t, Len(TrimEnd(SubSeq(line, 1, w - 2))))
    ELSE NoConversionMatch

MatchBeforeToken(line, t) ==
    MatchWithKeywordEnd(line, t, Len(TrimEnd(SubSeq(line, 1, t - 1))))

\* currentLine.match(/(\d+(?:\.\d+)?(?:[eE][+-]?\d+)?)\s+([a-zA-Z][...]*?)
\* \s+(?:to|as)\s+(\S*)$/i).  The last group is the token at the end of the
\* line; before it stand spaces, the keyword, spaces, and the source unit,
\* which begins with the first letter after a number and its spaces.  The
\* match is the one with the leftmost number.
ConversionMatch(line) == MatchBeforeToken(line, TokenStart(line, Len(line)))

\* the results for a token outside a conversion, or after a source unit
\* of no category: ensureSymbolsLoaded() is reached
GeneralSuggestions(token, symbolList) ==
    IF token = <<>>
    THEN [results |-> <<>>, ensureSymbols |-> FALSE]
    ELSE [results |-> FilterSymbols(symbolList, token), ensureSymbols |-> TRUE]

\* the results in a conversion whose source unit is of sourceCategory
CategorySuggestions(currentLine, conversionMatch, sourceCategory, configurations,
                    symbolList) ==
    IF sourceCategory.found
    THEN [results |-> FilterSymbols(GetCategorySymbols(configurations,
                                                       sourceCategory.category),
                                    ToLowerCase(conversionMatch.partialTargetUnit)),
          ensureSymbols |-> FALSE]
    ELSE GeneralSuggestions(ToLowerCase(LastToken(currentLine)), symbolList)

\* the results given the match of the conversion pattern
MatchedSuggestions(currentLine, conversionMatch, configurations, symbolList) ==
    IF ~conversionMatch.matched
    THEN GeneralSuggestions(ToLowerCase(LastToken(currentLine)), symbolList)
    ELSE IF conversionMatch.partialTargetUnit = <<>>
    THEN [results |-> <<>>, ensureSymbols |-> FALSE]
    ELSE CategorySuggestions(currentLine, conversionMatch,
                             FindUnitCategory(configurations,
                                              Trim(conversionMatch.sourceUnit)),
                             configurations, symbolList)

LineSuggestions(currentLine, configurations, symbolList) ==
    MatchedSuggestions(currentLine, ConversionMatch(currentLine), configurations,
                       symbolList)

\* what updateSuggestionsForValue(val) computes with the caret at pos: the
\* results, and whether it reaches ensureSymbolsLoaded()
SuggestionsFor(val, pos, configurations, symbolList) ==
    LineSuggestions(CurrentLine(val, pos), configurations, symbolList)

\* setSuggestions, setSuggestVisible and setActiveIndex of
\* updateSuggestionsForValue show results at their first entry
ShowFirstAlways(results) ==
    /\ widgetSuggestions' = results
    /\ suggestVisible' = TRUE
    /\ activeIndex' = 0

\* setSuggestions(results); setSuggestVisible(results.length > 0);
\* setActiveIndex(results.length > 0 ? 0 : -1)
Show(results) ==
    /\ widgetSuggestions' = results
    /\ suggestVisible' = (Len(results) > 0)
    /\ activeIndex' = IF Len(results) > 0 THEN 0 ELSE -1

\* the state updates of updateSuggestionsForValue; ensureSymbolsLoaded()
\* starts a load when no symbols are there yet
ShowFound(found) ==
    /\ Show(found.results)
    /\ symbolsRequested' = (symbolsRequested \/ (found.ensureSymbols /\ symbols = <<>>))

\* updateSuggestionsForValue(val)
UpdateSuggestionsForValue(val, pos) ==
    ShowFound(SuggestionsFor(val, pos, globalConfigurations, symbols))

\* a step of ConversionInput leaves the rest alone
WidgetOnly == UNCHANGED <<registryVars, callVars, evalVars, storageVars, uiVars>>

\* the symbols after `loadAllConfigurations().then(...)` of
\* ensureSymbolsLoaded
SymbolsAfter(res) ==
    IF res.success THEN GetAllUnitSymbols(res.categories) ELSE symbols

\* the load of ensureSymbolsLoaded has ended: setSymbols, if it succeeded
SymbolsLoaded ==
    /\ symbolsRequested
    /\ symbolsRequested' = FALSE
    /\ symbols' = SymbolsAfter(LoadAllConfigurations(configDocs))
    /\ UNCHANGED <<taValue, selectionStart, isFocused, widgetSuggestions, suggestVisible,
                   activeIndex, hideTimers, animationFrame>>
    /\ WidgetOnly

\* handleFocus
HandleFocus ==
    /\ ~isFocused
    /\ isFocused' = TRUE
    /\ UNCHANGED <<taValue, selectionStart, symbols, symbolsRequested, widgetSuggestions,
                   suggestVisible, activeIndex, hideTimers, animationFrame>>
    /\ WidgetOnly

\* handleBlur: a timer of 150 ms is started
HandleBlur ==
    /\ isFocused
    /\ hideTimers < MaxHideTimers
    /\ isFocused' = FALSE
    /\ hideTimers' = hideTimers + 1
    /\ UNCHANGED <<taValue, selectionStart, symbols, symbolsRequested, widgetSuggestions,
                   suggestVisible, activeIndex, animationFrame>>
    /\ WidgetOnly

\* a timer of handleBlur expires
HideTimerExpired ==
    /\ hideTimers > 0
    /\ hideTimers' = hideTimers - 1
    /\ suggestVisible' = FALSE
    /\ activeIndex' = -1
    /\ UNCHANGED <<taValue, selectionStart, isFocused, symbols, symbolsRequested,
                   widgetSuggestions, animationFrame>>
    /\ WidgetOnly

\* handleChange: the user has changed the text to newVal, the caret is at pos
HandleChange(newVal, pos) ==
    /\ isFocused
    /\ taValue' = newVal
    /\ selectionStart' = pos
    /\ UpdateSuggestionsForValue(newVal, pos)
    /\ UNCHANGED <<isFocused, symbols, hideTimers, animationFrame>>
    /\ WidgetOnly

\* the user moves the caret in the text
SelectionChange(pos) ==
    /\ isFocused
    /\ pos \in 0 .. Len(taValue)
    /\ selectionStart' = pos
    /\ UNCHANGED <<taValue, isFocused, symbols, symbolsRequested, widgetSuggestions,
                   suggestVisible, activeIndex, hideTimers, animationFrame>>
    /\ WidgetOnly

\* the state updates of acceptSuggestion when the token before the caret
\* is replaced: newBefore is the text up to the suggestion's end
Accepted(newBefore, after) ==
    /\ taValue' = newBefore \o after
    /\ selectionStart' = Len(newBefore) + Len(after)
    /\ animationFrame' = Len(newBefore)
    /\ suggestVisible' = FALSE
    /\ activeIndex' = -1
    /\ UNCHANGED <<isFocused, symbols, symbolsRequested, widgetSuggestions, hideTimers>>

\* acceptSuggestion with the token found before the caret
ReplaceToken(token, suggestion) ==
    IF token = <<>>
    THEN UNCHANGED widgetVars
    ELSE Accepted(SubSeq(taValue, 1, selectionStart - Len(token)) \o suggestion,
                  SubSeq(taValue, selectionStart + 1, Len(taValue)))

\* acceptSuggestion(suggestion): the token before the caret is replaced;
\* the textarea takes the new value with the caret at its end, and an
\* animation frame is requested that sets the caret and the focus
AcceptSuggestion(suggestion) ==
    ReplaceToken(LastToken(CurrentLine(taValue, selectionStart)), suggestion)

\* the callback of requestAnimationFrame: the caret is set, no further than
\* the end of the text the textarea has by then, and the textarea takes the
\* focus
AnimationFrame ==
    /\ animationFrame # -1
    /\ selectionStart' = Min2(animationFrame, Len(taValue))
    /\ isFocused' = TRUE
    /\ animationFrame' = -1
    /\ UNCHANGED <<taValue, symbols, symbolsRequested, widgetSuggestions, suggestVisible,
                   activeIndex, hideTimers>>
    /\ WidgetOnly

\* AutoSuggest, which renders the list while it is visible, calls onSelect
\* with the suggestion clicked
SuggestionClicked(i) ==
    /\ suggestVisible
    /\ i \in DOMAIN widgetSuggestions
    /\ AcceptSuggestion(widgetSuggestions[i])
    /\ WidgetOnly

\* handleKeyDown(event)
HandleKeyDown(key) ==
    /\ isFocused
    /\ IF key # "Tab" /\ suggestVisible /\ Len(widgetSuggestions) > 0
       THEN CASE key = "ArrowDown" ->
                    /\ activeIndex' = Min2(activeIndex + 1, Len(widgetSuggestions) - 1)
                    /\ UNCHANGED <<taValue, selectionStart, isFocused, symbols,
                                   symbolsRequested, widgetSuggestions, suggestVisible,
                                   hideTimers, animationFrame>>
              [] key = "ArrowUp" ->
                    /\ activeIndex' = Max2(activeIndex - 1, 0)
                    /\ UNCHANGED <<taValue, selectionStart, isFocused, symbols,
                                   symbolsRequested, widgetSuggestions, suggestVisible,
                                   hideTimers, animationFrame>>
              [] key = "Enter" ->
                    IF activeIndex >= 0 /\ activeIndex < Len(widgetSuggestions)
                    THEN AcceptSuggestion(widgetSuggestions[activeIndex + 1])
                    ELSE UNCHANGED widgetVars
              [] key = "Escape" ->
                    /\ suggestVisible' = FALSE
                    /\ activeIndex' = -1
                    /\ UNCHANGED <<taValue, selectionStart, isFocused, symbols,
                                   symbolsRequested, widgetSuggestions, hideTimers,
                                   animationFrame>>
              [] OTHER -> UNCHANGED widgetVars
       ELSE UNCHANGED widgetVars
    /\ WidgetOnly

\* the texts typed into the textarea: tokens that match symbols and tokens
\* that match none, in and out of a conversion, on one line and on two
WidgetTexts ==
    {<<>>,
     <<"f">>,
     <<"5"," ","m"," ","t","o"," ">>,
     <<"5"," ","m"," ","t","o"," ","f">>,
     <<"5"," ","z","z"," ","a","s"," ","L">>,
     <<"5"," ","g","a","l"," ","t","o"," ","q">>,
     <<"m","\n","5"," ","f","t"," ","t","o"," ","M">>}

\* the keys pressed
WidgetKeys == {"Tab", "ArrowDown", "ArrowUp", "Enter", "Escape", "a"}

\* App with documents that load, before its first render
InitWidget == InitApp /\ configDocs = StandardDocs

NextWidget ==
    \/ AppMount
    \/ ResumeInitialization
    \/ HandleFocus
    \/ HandleBlur
    \/ HideTimerExpired
    \/ \E newVal \in WidgetTexts : HandleChange(newVal, Len(newVal))
    \/ \E pos \in 0 .. 1 : SelectionChange(Len(taValue) - pos)
    \/ \E i \in 1 .. 10 : SuggestionClicked(i)
    \/ AnimationFrame
    \/ \E key \in WidgetKeys : HandleKeyDown(key)
    \/ SymbolsLoaded

SpecWidget == InitWidget /\ [][NextWidget]_vars

\* C30: under any sequence of text changes, key presses, accepted
\* suggestions and blur events with their delayed hide, whenever the list of
\* suggestions is visible it is not empty and the active index is a
\* position in it: 0 <= activeIndex < the number of suggestions.
C30_VisibleListHasActiveEntry ==
    suggestVisible =>
        /\ Len(widgetSuggestions) > 0
        /\ activeIndex >= 0
        /\ activeIndex < Len(widgetSuggestions)

\* the list is visible with more than one suggestion and ArrowDown has
\* moved the active index to the last of them
C30_LastSuggestionActive ==
    /\ suggestVisible
    /\ Len(widgetSuggestions) > 1
    /\ activeIndex = Len(widgetSuggestions) - 1

====
